---- MODULE Spec2Model ----
(***************************************************************************)
(* Model of the patient-registration backend (MVP/backend/server.js), its  *)
(* persistence schema (models/Patient.js) and the request/response         *)
(* contract the mobile client relies on.                                   *)
(*                                                                         *)
(* Conventions                                                             *)
(*  - A JSON value is a record [t, s, n]: t is the JavaScript type tag,    *)
(*    s the characters of a string (a sequence of one-character strings),  *)
(*    n a number in TENTHS (15 is 1.5) or a boolean as 0/1.                *)
(*  - The clock `now` is Date.now(), in milliseconds.                      *)
(*  - The record store is linearizable: an insert or a find takes effect   *)
(*    at one instant between the call and its completion.                  *)
(*  - Tokens are unforgeable: a token signed with JWT_SECRET exists only   *)
(*    if /login issued it.                                                 *)
(***************************************************************************)
EXTENDS Integers, Sequences, FiniteSets, TLC

\* ------------------------------------------------------------------ bounds
MaxTokens == 2      \* tokens issued by /login and kept by clients
MaxDocs == 2        \* documents constructed by POST /patients
MaxInflight == 2    \* handlers suspended at an await at the same time
MaxFetches == 2     \* fetchPatients calls of the list screen pending at the same time
MaxStarted == 3     \* fetchPatients calls the list screen starts

\* --------------------------------------------------------------- JSON values
Undef == [t |-> "undefined", s |-> <<>>, n |-> 0]
Null == [t |-> "null", s |-> <<>>, n |-> 0]
Str(chars) == [t |-> "string", s |-> chars, n |-> 0]
Num(tenths) == [t |-> "number", s |-> <<>>, n |-> tenths]
Bool(b) == [t |-> "boolean", s |-> <<>>, n |-> IF b THEN 1 ELSE 0]

\* JavaScript ToBoolean, negated: the values for which `!v` is true.
Falsy(v) ==
    \/ v.t \in {"undefined", "null"}
    \/ v.t = "string" /\ v.s = <<>>
    \/ v.t = "number" /\ v.n = 0
    \/ v.t = "boolean" /\ v.n = 0

WhiteSpace == {" ", "\t", "\n"}
Digits == <<"0", "1", "2", "3", "4", "5", "6", "7", "8", "9">>
IsDigit(c) == \E i \in 1..10 : Digits[i] = c
DigitValue(c) == (CHOOSE i \in 1..10 : Digits[i] = c) - 1

RECURSIVE TrimStart(_)
TrimStart(s) ==
    IF s # <<>> /\ Head(s) \in WhiteSpace THEN TrimStart(Tail(s)) ELSE s

RECURSIVE TrimEnd(_)
TrimEnd(s) ==
    IF s # <<>> /\ s[Len(s)] \in WhiteSpace
    THEN TrimEnd(SubSeq(s, 1, Len(s) - 1))
    ELSE s

\* String.prototype.trim
Trim(s) == TrimEnd(TrimStart(s))

\* The value of the leading run of decimal digits of s, acc being the value
\* read so far.
RECURSIVE LeadingDigits(_, _)
LeadingDigits(s, acc) ==
    IF s # <<>> /\ IsDigit(Head(s))
    THEN LeadingDigits(Tail(s), 10 * acc + DigitValue(Head(s)))
    ELSE acc

NaN == [nan |-> TRUE, v |-> 0]
Int10(v) == [nan |-> FALSE, v |-> v]

\* parseInt of a string: leading white space is skipped, an optional sign is
\* read, then the longest run of digits; what follows is ignored; no digit
\* at all gives NaN.
ParseIntString(s) ==
    LET t == TrimStart(s)
        neg == t # <<>> /\ Head(t) = "-"
        u == IF t # <<>> /\ Head(t) \in {"-", "+"} THEN Tail(t) ELSE t
    IN  IF u = <<>> \/ ~IsDigit(Head(u))
        THEN NaN
        ELSE Int10((IF neg THEN -1 ELSE 1) * LeadingDigits(u, 0))

\* parseInt(v): v is converted to a string first, so a number is truncated
\* toward zero and undefined, null, true and false give NaN.
ParseInt(v) ==
    CASE v.t = "string" -> ParseIntString(v.s)
      [] v.t = "number" -> Int10(IF v.n >= 0 THEN v.n \div 10 ELSE -((-v.n) \div 10))
      [] OTHER -> NaN

\* ------------------------------------------------------------ configuration
\* The one configured credential pair (server.js 113-114) and the signing
\* secret (server.js 87 and 121), as characters.
HARDCODED_USERNAME == <<"a", "s", "h", "a", "_", "w", "o", "r", "k", "e", "r">>
HARDCODED_PASSWORD == <<"p", "a", "s", "s", "w", "o", "r", "d", "1", "2", "3">>
JWT_SECRET == "fallback-secret"
ROLE == "asha_worker"

\* expiresIn: '24h', in seconds, and the milliseconds of one second.
ExpiresIn == 86400
MsPerSecond == 1000

\* ------------------------------------------------------------------ tokens
\* One space-separated part of an Authorization header: a signed token, any
\* other text ("word": a scheme name, garbage) or the empty string.
Word == [k |-> "word", username |-> <<>>, role |-> "", iat |-> 0, exp |-> 0, key |-> ""]
Empty == [k |-> "empty", username |-> <<>>, role |-> "", iat |-> 0, exp |-> 0, key |-> ""]
NoToken == [k |-> "none", username |-> <<>>, role |-> "", iat |-> 0, exp |-> 0, key |-> ""]

\* jwt.sign(payload, secret, {expiresIn}): iat is the clock in whole seconds.
JwtSignLate(username, secret, nowMs) ==
    [k |-> "jwt", username |-> username, role |-> ROLE,
     iat |-> nowMs \div MsPerSecond,
     exp |-> nowMs \div MsPerSecond + ExpiresIn + 1, key |-> secret]

JwtSign(username, secret, nowMs) ==
    [k |-> "jwt", username |-> username, role |-> ROLE,
     iat |-> nowMs \div MsPerSecond,
     exp |-> nowMs \div MsPerSecond + ExpiresIn, key |-> secret]

\* jwt.verify(token, secret): the name of the error, or "" when the token
\* verifies. The token is parsed, then its signature is checked, then its
\* expiry against the clock in whole seconds.
JwtVerify(tok, secret, nowMs) ==
    CASE tok.k # "jwt" -> "JsonWebTokenError"
      [] tok.key # secret -> "JsonWebTokenError"
      [] nowMs \div MsPerSecond >= tok.exp -> "TokenExpiredError"
      [] OTHER -> ""

\* An Authorization header: absent, or its parts as split(' ') gives them.
NoHeader == [present |-> FALSE, parts |-> <<>>]
Header(parts) == [present |-> TRUE, parts |-> parts]

\* authHeader && authHeader.split(' ')[1]
HeaderToken(h) ==
    IF h.present /\ Len(h.parts) >= 2 THEN h.parts[2] ELSE NoToken

\* ------------------------------------------------------- requests, responses
NoBody ==
    [username |-> Undef, password |-> Undef, name |-> Undef, age |-> Undef,
     gender |-> Undef, village |-> Undef, healthIssue |-> Undef]
LoginBody(u, p) == [NoBody EXCEPT !.username = u, !.password = p]
PatientBody(n, a, g, v, h) ==
    [NoBody EXCEPT !.name = n, !.age = a, !.gender = g, !.village = v,
                   !.healthIssue = h]

\* A request: method and path, the Authorization header, the parsed JSON
\* body, and whether the body sent was well-formed JSON ("json") or text
\* express.json() cannot parse ("malformed").
Request(route, auth, body) ==
    [route |-> route, auth |-> auth, body |-> body, syntax |-> "json"]
Malformed(req) == [req EXCEPT !.syntax = "malformed"]
NoRequest == Request("", NoHeader, NoBody)

\* A stored document: _id, the five fields and the creation timestamp
\* (timestamps: true; updatedAt always equals createdAt, nothing updates).
NoDoc ==
    [id |-> 0, name |-> <<>>, age |-> 0, gender |-> <<>>, village |-> <<>>,
     healthIssue |-> <<>>, createdAt |-> 0]

\* A response: the status, the fields of the JSON body ("absent" and
\* NoToken, NoDoc, -1 stand for a field the body does not carry), the request
\* it answers, and whether the route handler's body ran for that request.
\* Two history fields: `at`, the clock when the request arrived (-1 on a
\* response sent after an await), and `acked0`, the documents whose 201 had
\* been sent when the request arrived.
NoUser == [username |-> Undef, role |-> ""]
Response(req, status, success, error, ran) ==
    [req |-> req, status |-> status, success |-> success, error |-> error,
     message |-> "absent", token |-> NoToken, user |-> NoUser,
     patient |-> NoDoc, patients |-> <<>>, count |-> -1, details |-> "absent",
     health |-> "absent", database |-> "absent",
     ran |-> ran, at |-> 0, acked0 |-> {}]
NoResp == Response(NoRequest, 0, "absent", "absent", FALSE)

\* An error object passed to next(error); status 0 stands for an error
\* without a status property.
HttpError(name, message, status) ==
    [name |-> name, message |-> message, status |-> status]
Error(name, message) == HttpError(name, message, 0)
NoError == Error("", "")

\* errorHandler (server.js 34-68). Every message of this model is
\* non-empty, so err.message || 'Internal Server Error' is err.message.
ErrorHandler(req, err) ==
    CASE err.name = "ValidationError" ->
            [Response(req, 400, "false", "Validation Error", TRUE)
                EXCEPT !.details = err.message]
      [] err.name = "JsonWebTokenError" ->
            Response(req, 401, "false", "Invalid token", TRUE)
      [] err.name = "MongoServerError" ->
            Response(req, 500, "false", "Database connection error", TRUE)
      [] OTHER ->
            Response(req, IF err.status # 0 THEN err.status ELSE 500, "false",
                     err.message, TRUE)

\* authenticateToken (server.js 79-94): the response it sends, or NoResp
\* when it calls next().
AuthenticateTokenOpen(req, nowMs) == NoResp

AuthenticateTokenVerbose(req, nowMs) ==
    LET token == HeaderToken(req.auth) IN
    IF token.k \in {"none", "empty"}
    THEN Response(req, 401, "absent", "Access token required", FALSE)
    ELSE IF JwtVerify(token, JWT_SECRET, nowMs) = "TokenExpiredError"
         THEN Response(req, 403, "absent", "Token expired", FALSE)
         ELSE IF JwtVerify(token, JWT_SECRET, nowMs) # ""
              THEN Response(req, 403, "absent", "Invalid or expired token", FALSE)
              ELSE NoResp

AuthenticateTokenFirstOnly(req, nowMs) ==
    LET token == HeaderToken(req.auth) IN
    IF token.k \in {"none", "empty"}
    THEN Response(req, 401, "absent", "Access token required", FALSE)
    ELSE IF JwtVerify(token, JWT_SECRET, nowMs) # "" \/ token.iat # 0
         THEN Response(req, 403, "absent", "Invalid or expired token", FALSE)
         ELSE NoResp

AuthenticateToken(req, nowMs) ==
    LET token == HeaderToken(req.auth) IN
    IF token.k \in {"none", "empty"}
    THEN Response(req, 401, "absent", "Access token required", FALSE)
    ELSE IF JwtVerify(token, JWT_SECRET, nowMs) # ""
         THEN Response(req, 403, "absent", "Invalid or expired token", FALSE)
         ELSE NoResp

\* The routes the application registers (server.js 99, 146, 210, 229).
Routes == {"POST /login", "POST /patients", "GET /patients", "GET /health"}

\* Requests that match none of them, and OPTIONS requests.
OtherRoutes ==
    {"GET /", "PUT /patients", "DELETE /patients", "POST /health",
     "OPTIONS /patients", "OPTIONS /nowhere"}
Method(route) ==
    CASE route \in {"POST /login", "POST /patients", "POST /health"} -> "POST"
      [] route \in {"GET /patients", "GET /health", "GET /"} -> "GET"
      [] route \in {"OPTIONS /patients", "OPTIONS /nowhere"} -> "OPTIONS"
      [] route = "PUT /patients" -> "PUT"
      [] route = "DELETE /patients" -> "DELETE"
      [] OTHER -> ""

\* cors() (server.js 13-18): with the package's defaults for the preflight,
\* every OPTIONS request is answered 204 with an empty body and goes no
\* further; any other request is passed on.
Cors(req) ==
    IF Method(req.route) = "OPTIONS"
    THEN Response(req, 204, "absent", "absent", FALSE)
    ELSE NoResp

\* express.json() (server.js 21): a body that is not well-formed JSON makes
\* it call next(err) with a SyntaxError whose status is 400; errorHandler
\* answers it.
BodyParser(req) ==
    IF req.syntax = "malformed"
    THEN [ErrorHandler(req, HttpError("SyntaxError",
                                      "Unexpected end of JSON input", 400))
            EXCEPT !.ran = FALSE]
    ELSE NoResp

\* The middleware ahead of the routes (server.js 13-31): the response one
\* of them sends, or NoResp when the request reaches the router.
Middleware(req) ==
    IF Cors(req) # NoResp THEN Cors(req) ELSE BodyParser(req)

\* `Route ${req.method} ${req.originalUrl} not found`
NotFoundMessage(route) ==
    CASE route = "GET /" -> "Route GET / not found"
      [] route = "PUT /patients" -> "Route PUT /patients not found"
      [] route = "DELETE /patients" -> "Route DELETE /patients not found"
      [] route = "POST /health" -> "Route POST /health not found"
      [] OTHER -> "Route not found"

\* app.use('*') (server.js 252-257).
NotFoundBare(req) ==
    Response(req, 404, "absent", "Not Found", FALSE)

NotFound(req) ==
    Response(req, 404, "false", NotFoundMessage(req.route), FALSE)

\* dbState === 1 ? 'Connected' : dbState === 2 ? 'Connecting' :
\* dbState === 3 ? 'Disconnecting' : 'Disconnected'
DbStatusUpOrDown(dbState) ==
    IF dbState = 1 THEN "Connected" ELSE "Disconnected"

DbStatus(dbState) ==
    IF dbState = 1 THEN "Connected"
    ELSE IF dbState = 2 THEN "Connecting"
    ELSE IF dbState = 3 THEN "Disconnecting"
    ELSE "Disconnected"

\* GET /health (server.js 229-249). Nothing in its try block throws, so the
\* catch and its 500 are never reached. The body's timestamp is the clock
\* at the request, the response's `at`.
Health(req, dbState) ==
    [Response(req, 200, "absent", "absent", TRUE)
        EXCEPT !.health = "OK",
               !.message = "Patient Management API is running",
               !.database = DbStatus(dbState)]

\* POST /login (server.js 99-143).
LoginLeaky(req, nowMs) ==
    LET username == req.body.username
        password == req.body.password
    IN  IF Falsy(username) \/ Falsy(password)
        THEN Response(req, 400, "false", "Username and password are required", TRUE)
        ELSE IF username = Str(HARDCODED_USERNAME) /\ password = Str(HARDCODED_PASSWORD)
             THEN [Response(req, 200, "true", "absent", TRUE)
                     EXCEPT !.token = JwtSign(username.s, JWT_SECRET, nowMs),
                            !.user = [username |-> username, role |-> ROLE]]
             ELSE IF username = Str(HARDCODED_USERNAME)
                  THEN Response(req, 401, "false", "Invalid password", TRUE)
                  ELSE Response(req, 401, "false", "Invalid credentials", TRUE)

LoginUsernameOnly(req, nowMs) ==
    LET username == req.body.username
        password == req.body.password
    IN  IF Falsy(username) \/ Falsy(password)
        THEN Response(req, 400, "false", "Username and password are required", TRUE)
        ELSE IF username = Str(HARDCODED_USERNAME)
             THEN [Response(req, 200, "true", "absent", TRUE)
                     EXCEPT !.token = JwtSign(username.s, JWT_SECRET, nowMs),
                            !.user = [username |-> username, role |-> ROLE]]
             ELSE Response(req, 401, "false", "Invalid credentials", TRUE)

Login(req, nowMs) ==
    LET username == req.body.username
        password == req.body.password
    IN  IF Falsy(username) \/ Falsy(password)
        THEN Response(req, 400, "false", "Username and password are required", TRUE)
        ELSE IF username = Str(HARDCODED_USERNAME) /\ password = Str(HARDCODED_PASSWORD)
             THEN [Response(req, 200, "true", "absent", TRUE)
                     EXCEPT !.token = JwtSign(username.s, JWT_SECRET, nowMs),
                            !.user = [username |-> username, role |-> ROLE]]
             ELSE Response(req, 401, "false", "Invalid credentials", TRUE)

\* ------------------------------------------------------------ POST /patients
Male == <<"M", "a", "l", "e">>
Female == <<"F", "e", "m", "a", "l", "e">>
Other == <<"O", "t", "h", "e", "r">>
Genders == {Male, Female, Other}

\* v?.trim() throws a TypeError when v is neither undefined, null nor a
\* string: a number or a boolean has no trim method.
TrimThrows(v) == v.t \notin {"undefined", "null", "string"}

\* !v?.trim(), for a v on which it does not throw.
Blank(v) == v.t \in {"undefined", "null"} \/ Trim(v.s) = <<>>

\* !age || isNaN(parseInt(age)) || parseInt(age) <= 0 || parseInt(age) > 150
AgeRejectedBelowZero(age) ==
    Falsy(age) \/ ParseInt(age).nan \/ ParseInt(age).v < 0 \/ ParseInt(age).v > 150

AgeRejectedNoMax(age) ==
    Falsy(age) \/ ParseInt(age).nan \/ ParseInt(age).v <= 0

AgeRejected(age) ==
    Falsy(age) \/ ParseInt(age).nan \/ ParseInt(age).v <= 0 \/ ParseInt(age).v > 150

\* !gender || !['Male', 'Female', 'Other'].includes(gender)
GenderRejected(gender) ==
    Falsy(gender) \/ ~(gender.t = "string" /\ gender.s \in Genders)

\* The validation of server.js 152-185 on a body: the 400 error it answers
\* with ("reject"), the TypeError it throws ("throw"), or "ok".
Outcome(out, error) == [out |-> out, error |-> error]

ValidateNoAge(body) ==
    IF TrimThrows(body.name)
    THEN Outcome("throw", "name?.trim is not a function")
    ELSE IF Blank(body.name)
    THEN Outcome("reject", "Patient name is required")
    ELSE IF GenderRejected(body.gender)
    THEN Outcome("reject", "Valid gender is required (Male, Female, Other)")
    ELSE IF TrimThrows(body.village)
    THEN Outcome("throw", "village?.trim is not a function")
    ELSE IF Blank(body.village)
    THEN Outcome("reject", "Village name is required")
    ELSE IF TrimThrows(body.healthIssue)
    THEN Outcome("throw", "healthIssue?.trim is not a function")
    ELSE IF Blank(body.healthIssue)
    THEN Outcome("reject", "Health issue description is required")
    ELSE Outcome("ok", "")

Validate(body) ==
    IF TrimThrows(body.name)
    THEN Outcome("throw", "name?.trim is not a function")
    ELSE IF Blank(body.name)
    THEN Outcome("reject", "Patient name is required")
    ELSE IF AgeRejected(body.age)
    THEN Outcome("reject", "Valid age is required (1-150)")
    ELSE IF GenderRejected(body.gender)
    THEN Outcome("reject", "Valid gender is required (Male, Female, Other)")
    ELSE IF TrimThrows(body.village)
    THEN Outcome("throw", "village?.trim is not a function")
    ELSE IF Blank(body.village)
    THEN Outcome("reject", "Village name is required")
    ELSE IF TrimThrows(body.healthIssue)
    THEN Outcome("throw", "healthIssue?.trim is not a function")
    ELSE IF Blank(body.healthIssue)
    THEN Outcome("reject", "Health issue description is required")
    ELSE Outcome("ok", "")

\* new Patient({...}) (server.js 187-193) for a body that passed Validate;
\* save() stamps createdAt with the clock (timestamps: true).
NewPatientUntrimmed(body, id, nowMs) ==
    [id |-> id, name |-> body.name.s, age |-> ParseInt(body.age).v,
     gender |-> body.gender.s, village |-> body.village.s,
     healthIssue |-> body.healthIssue.s, createdAt |-> nowMs]

NewPatient(body, id, nowMs) ==
    [id |-> id, name |-> Trim(body.name.s), age |-> ParseInt(body.age).v,
     gender |-> body.gender.s, village |-> Trim(body.village.s),
     healthIssue |-> Trim(body.healthIssue.s), createdAt |-> nowMs]

\* The schema of models/Patient.js: required fields, age within min and max,
\* gender in the enum.
SchemaValid(doc) ==
    /\ doc.name # <<>> /\ doc.village # <<>> /\ doc.healthIssue # <<>>
    /\ doc.age >= 0 /\ doc.age <= 150
    /\ doc.gender \in Genders

\* ------------------------------------------------------ client: ApiService
\* frontend/services/api.js. REQUEST_TIMEOUT guards makeRequest's fetch,
\* TEST_TIMEOUT the fetch of testConnection.
REQUEST_TIMEOUT == 10000
TEST_TIMEOUT == 5000

\* The ApiService and its one makeRequest call: isOnline, the token in
\* AsyncStorage, the call's position (pc: "idle", "test" in testConnection,
\* "token" in getToken, "fetch", "body" reading the response's body,
\* "resolved", "rejected"), its endpoint, the token it sent, its timer
\* ("none", "armed", "cleared", "fired") and the timer's delay, the status
\* and the error of the response, and the message it rejected with.
\* Four more fields: op, the method of ApiService that made the call
\* ("" for a bare makeRequest); method and body, the options of the request;
\* success and got, the fields success and token of the body received;
\* caught, the message of the error the catch of makeRequest received.
\* In login, pc "setToken" is the position after makeRequest returned
\* (api.js 217).
NoCall ==
    [isOnline |-> TRUE, token |-> NoToken, pc |-> "idle", endpoint |-> "",
     sent |-> NoToken, timer |-> "none", delay |-> 0, status |-> 0,
     data |-> "absent", error |-> "",
     op |-> "", method |-> "GET", body |-> NoBody, success |-> "absent",
     got |-> NoToken, caught |-> ""]
Settled == {"idle", "resolved", "rejected"}

\* What fetch can resolve with: the status and the error field of the
\* body ("absent" when the body has none). A body that is not JSON is
\* replaced by { error: 'Server returned non-JSON response' } (api.js 151).
Fetched(status, error) == [status |-> status, error |-> error]
Responses ==
    {Fetched(200, "absent"), Fetched(201, "absent"),
     Fetched(200, "Server returned non-JSON response"),
     Fetched(400, "Patient name is required"),
     Fetched(400, "Unexpected end of JSON input"),
     Fetched(401, "Access token required"),
     Fetched(401, "absent"),
     Fetched(403, "Invalid or expired token"),
     Fetched(404, "Route GET /fetch not found"),
     Fetched(500, "Database connection error"),
     Fetched(502, "Server returned non-JSON response")}

\* data.error || the default of the status (api.js 158-169).
HttpErrorMessage(r) ==
    IF r.error # "absent" THEN r.error
    ELSE IF r.status = 401 THEN "Authentication failed. Please login again."
    ELSE IF r.status = 403 THEN "Access forbidden. Please check your permissions."
    ELSE IF r.status = 404 THEN "Requested resource not found."
    ELSE IF r.status = 500 THEN "Server error. Please try again later."
    ELSE "Request failed"

\* error.message.includes('Network request failed') ||
\* error.message.includes('fetch'), and error.message.includes('JSON'),
\* on the messages of this model.
MentionsFetch(msg) == msg \in {"Network request failed", "Route GET /fetch not found"}
MentionsJSON(msg) ==
    msg \in {"JSON Parse error: Unexpected EOF", "Unexpected end of JSON input",
             "Server returned non-JSON response"}

\* The catch of makeRequest (api.js 175-197) on an error that is not an
\* AbortError: the client it leaves, rejected.
Caught(c, msg) ==
    IF MentionsFetch(msg)
    THEN [c EXCEPT !.pc = "rejected", !.isOnline = FALSE, !.caught = msg,
                   !.error = "Network Error: Cannot connect to server"]
    ELSE IF MentionsJSON(msg)
    THEN [c EXCEPT !.pc = "rejected", !.caught = msg,
                   !.error = "Server response error. Please try again."]
    ELSE [c EXCEPT !.pc = "rejected", !.caught = msg, !.error = msg]

\* makeRequest from its call to its first await (api.js 92-102): an
\* offline service tests the connection first for /login and /patients.
Started(c, e, method, body) ==
    LET d == [c EXCEPT !.endpoint = e, !.method = method, !.body = body,
                       !.sent = NoToken, !.status = 0, !.data = "absent",
                       !.error = "", !.success = "absent", !.got = NoToken,
                       !.caught = "", !.timer = "none", !.delay = 0]
    IN  IF ~c.isOnline /\ e \in {"/login", "/patients"}
        THEN [d EXCEPT !.pc = "test", !.timer = "armed", !.delay = TEST_TIMEOUT]
        ELSE [d EXCEPT !.pc = "token"]

\* The request fetch sends (api.js 106-128): the Authorization header is
\* set when getToken returned a token.
BearerOf(tok) == IF tok = NoToken THEN NoHeader ELSE Header(<<Word, tok>>)
RouteOf(c) == IF c.method = "POST" THEN "POST " \o c.endpoint ELSE "GET " \o c.endpoint
RequestOf(c) == Request(RouteOf(c), BearerOf(c.sent), c.body)

\* isAuthenticated() (api.js 307-310): !!token.
IsAuthenticated(c) == c.token # NoToken

\* The input validation of login (api.js 205): the values of this model
\* are strings, undefined or null.
LoginRejected(username, password) == Blank(username) \/ Blank(password)

\* The input validation of addPatient (api.js 236-252): the error it
\* throws ("reject"), the TypeError of ?.trim() on a value that is not a
\* string ("throw"), or "ok".
AddPatientCheck(patientData) ==
    IF TrimThrows(patientData.name)
    THEN Outcome("throw", "name?.trim is not a function")
    ELSE IF Blank(patientData.name)
    THEN Outcome("reject", "Patient name is required")
    ELSE IF \/ Falsy(patientData.age) \/ ParseInt(patientData.age).nan
            \/ ParseInt(patientData.age).v <= 0
    THEN Outcome("reject", "Valid age is required")
    ELSE IF Falsy(patientData.gender)
    THEN Outcome("reject", "Gender is required")
    ELSE IF TrimThrows(patientData.village)
    THEN Outcome("throw", "village?.trim is not a function")
    ELSE IF Blank(patientData.village)
    THEN Outcome("reject", "Village name is required")
    ELSE IF TrimThrows(patientData.healthIssue)
    THEN Outcome("throw", "healthIssue?.trim is not a function")
    ELSE IF Blank(patientData.healthIssue)
    THEN Outcome("reject", "Health issue description is required")
    ELSE Outcome("ok", "")

\* ------------------------------------------------- client: AddPatientScreen
\* frontend/screens/AddPatientScreen.js. The screen's state (17-24):
\* patientData, whose fields the inputs set to strings, and loading; the
\* alert on show ("" for none) and the position of handleSubmit ("idle",
\* "addPatient" awaiting ApiService.addPatient, "notify" awaiting
\* NotificationService.notifyPatientAdded).
NoForm ==
    [patientData |-> PatientBody(Str(<<>>), Str(<<>>), Str(Male), Str(<<>>), Str(<<>>)),
     loading |-> FALSE, alert |-> "", pc |-> "idle"]

\* v.trim() on a value that is not a string throws a TypeError.
IsString(v) == v.t = "string"

\* validateForm (AddPatientScreen.js 33-57): the alert it shows ("reject"),
\* the TypeError of .trim() on a value that is not a string, or "ok".
ValidateFormAgeCapped(patientData) ==
    IF ~IsString(patientData.name)
    THEN Outcome("throw", "name.trim is not a function")
    ELSE IF Trim(patientData.name.s) = <<>>
    THEN Outcome("reject", "Please enter patient name")
    ELSE IF ~IsString(patientData.age)
    THEN Outcome("throw", "age.trim is not a function")
    ELSE IF \/ Trim(patientData.age.s) = <<>> \/ ParseInt(patientData.age).nan
            \/ ParseInt(patientData.age).v <= 0 \/ ParseInt(patientData.age).v > 100
    THEN Outcome("reject", "Please enter a valid age")
    ELSE IF ~IsString(patientData.village)
    THEN Outcome("throw", "village.trim is not a function")
    ELSE IF Trim(patientData.village.s) = <<>>
    THEN Outcome("reject", "Please enter village name")
    ELSE IF ~IsString(patientData.healthIssue)
    THEN Outcome("throw", "healthIssue.trim is not a function")
    ELSE IF Trim(patientData.healthIssue.s) = <<>>
    THEN Outcome("reject", "Please enter health issue")
    ELSE Outcome("ok", "")

ValidateForm(patientData) ==
    IF ~IsString(patientData.name)
    THEN Outcome("throw", "name.trim is not a function")
    ELSE IF Trim(patientData.name.s) = <<>>
    THEN Outcome("reject", "Please enter patient name")
    ELSE IF ~IsString(patientData.age)
    THEN Outcome("throw", "age.trim is not a function")
    ELSE IF \/ Trim(patientData.age.s) = <<>> \/ ParseInt(patientData.age).nan
            \/ ParseInt(patientData.age).v <= 0
    THEN Outcome("reject", "Please enter a valid age")
    ELSE IF ~IsString(patientData.village)
    THEN Outcome("throw", "village.trim is not a function")
    ELSE IF Trim(patientData.village.s) = <<>>
    THEN Outcome("reject", "Please enter village name")
    ELSE IF ~IsString(patientData.healthIssue)
    THEN Outcome("throw", "healthIssue.trim is not a function")
    ELSE IF Trim(patientData.healthIssue.s) = <<>>
    THEN Outcome("reject", "Please enter health issue")
    ELSE Outcome("ok", "")

\* --------------------------------------------- client: NotificationService
\* services/notificationService.js: isInitialized (17, 77) and whether a
\* notification was scheduled (1) or not (0).
NoNotifications == [isInitialized |-> FALSE, scheduled |-> 0]

\* ------------------------------------------------ client: PatientListScreen
\* frontend/screens/PatientListScreen.js. The screen's state (18-20):
\* patients (the _ids on show, in order), loading and refreshing; the alert
\* on show; the calls of fetchPatients that have not settled, each with the
\* order in which it started, its position ("await", "resolved",
\* "rejected") and the patients of the response; `started`, how many calls
\* have started; and two history fields: `latest`, what the call that
\* started last was answered with (<<-1>> when it has no answer), and
\* `shown`, the start order of the call whose patients are on show.
NoList ==
    [patients |-> <<>>, loading |-> TRUE, refreshing |-> FALSE, alert |-> "",
     fetches |-> {}, started |-> 0, latest |-> <<-1>>, shown |-> 0]

\* ------------------------------------------------------------------- state
VARIABLES
    now,        \* Date.now(), milliseconds
    issued,     \* tokens /login has returned, each with its issuance instant
    store,      \* the patients collection: a set of documents
    inflight,   \* handlers suspended at `await patient.save()` or `await find()`
    nextId,     \* the next _id new Patient() assigns
    acked,      \* history: _ids of the documents whose 201 has been sent
    resp,       \* the response being sent, NoResp between responses
    db,         \* mongoose.connection.readyState
    phase,      \* the process: "up", then the stages of the SIGTERM handler
    client,     \* the mobile client's ApiService and its makeRequest call
    form,       \* AddPatientScreen: patientData, loading, the alert shown
    list,       \* PatientListScreen: patients, loading, refreshing, its fetches
    notifications   \* NotificationService: isInitialized, what was scheduled

vars ==
    <<now, issued, store, inflight, nextId, acked, resp, db, phase, client,
      form, list, notifications>>

\* A suspended handler: its request, the pending store operation's state
\* (pc: "await", "resolved", "rejected" by the store, "invalid" when save
\* rejects the document against the schema), the document being saved or
\* the result of find, and the history field acked0.
Pending(kind, req, pc, doc, acked0) ==
    [kind |-> kind, req |-> req, pc |-> pc, doc |-> doc, result |-> <<>>,
     acked0 |-> acked0, open |-> TRUE]

Stamp(r) == [r EXCEPT !.at = now, !.acked0 = acked]

Init ==
    /\ now = 0
    /\ issued = {}
    /\ store = {}
    /\ inflight = {}
    /\ nextId = 1
    /\ acked = {}
    /\ resp = NoResp
    /\ db = 1
    /\ phase = "up"
    /\ client = NoCall
    /\ form = NoForm
    /\ list = NoList
    /\ notifications = NoNotifications

\* The server accepts connections: app.listen() has run (server.js 275)
\* and server.close() has not.
Listening == phase = "up"
\* The process has not exited.
Running == phase # "exited"
\* The store connection is open: commands are sent to the store.
Connected == db = 1

\* ----------------------------------------------------------------- actions
\* The clock advances to a later one of the given readings.
AdvanceTo(readings) ==
    /\ resp = NoResp
    /\ \E t \in readings : t > now /\ now' = t
    /\ UNCHANGED <<issued, store, inflight, nextId, acked, resp, db, phase, client, form, list, notifications>>

\* POST /login (server.js 99-143) on one of the given requests.
PostLoginOf(reqs) ==
    /\ Listening /\ resp = NoResp
    /\ \E req \in reqs :
        LET r == Stamp(Login(req, now)) IN
        /\ resp' = r
        /\ issued' = IF r.token = NoToken THEN issued
                     ELSE issued \cup {[tok |-> r.token, at |-> now]}
        /\ Cardinality(issued') <= MaxTokens
    /\ UNCHANGED <<now, store, inflight, nextId, acked, db, phase, client, form, list, notifications>>

\* POST /patients up to `await patient.save()` (server.js 146-195):
\* authenticateToken, the five checks, new Patient and the call of save,
\* which validates against the schema before it sends the insert.
PostPatientsOf(reqs) ==
    /\ Listening /\ resp = NoResp
    /\ \E req \in reqs :
        LET auth == AuthenticateToken(req, now)
            v == Validate(req.body)
            doc == NewPatient(req.body, nextId, now)
        IN  IF auth # NoResp
            THEN /\ resp' = Stamp(auth)
                 /\ UNCHANGED <<inflight, nextId>>
            ELSE IF v.out = "reject"
            THEN /\ resp' = Stamp(Response(req, 400, "false", v.error, TRUE))
                 /\ UNCHANGED <<inflight, nextId>>
            ELSE IF v.out = "throw"
            THEN /\ resp' = Stamp(ErrorHandler(req, Error("TypeError", v.error)))
                 /\ UNCHANGED <<inflight, nextId>>
            ELSE /\ nextId <= MaxDocs
                 /\ Cardinality(inflight) < MaxInflight
                 /\ inflight' = inflight \cup
                        {Pending("create", req,
                                 IF SchemaValid(doc) THEN "await" ELSE "invalid",
                                 doc, {})}
                 /\ nextId' = nextId + 1
                 /\ resp' = NoResp
    /\ UNCHANGED <<now, issued, store, acked, db, phase, client, form, list, notifications>>

\* GET /patients up to `await Patient.find().sort(...)` (server.js 210-213).
GetPatientsOf(reqs) ==
    /\ Listening /\ resp = NoResp
    /\ \E req \in reqs :
        LET auth == AuthenticateToken(req, now) IN
        IF auth # NoResp
        THEN /\ resp' = Stamp(auth)
             /\ UNCHANGED inflight
        ELSE /\ Cardinality(inflight) < MaxInflight
             /\ inflight' = inflight \cup {Pending("list", req, "await", NoDoc, acked)}
             /\ resp' = NoResp
    /\ UNCHANGED <<now, issued, store, nextId, acked, db, phase, client, form, list, notifications>>

\* The orders in which find().sort({createdAt: -1}) returns the documents
\* of S: every order that is descending in createdAt. The store leaves the
\* relative order of documents with equal createdAt unspecified.
SortedAscending(S) ==
    {f \in [1..Cardinality(S) -> S] :
        /\ \A i, j \in 1..Cardinality(S) : i # j => f[i] # f[j]
        /\ \A i, j \in 1..Cardinality(S) : i < j => f[i].createdAt <= f[j].createdAt}

SortedDescending(S) ==
    {f \in [1..Cardinality(S) -> S] :
        /\ \A i, j \in 1..Cardinality(S) : i # j => f[i] # f[j]
        /\ \A i, j \in 1..Cardinality(S) : i < j => f[i].createdAt >= f[j].createdAt}

\* The store performs the insert of a pending save.
StoreInsertReplacing ==
    /\ Connected /\ resp = NoResp
    /\ \E r \in inflight :
        /\ r.kind = "create" /\ r.pc = "await"
        /\ store' = {r.doc}
        /\ inflight' = (inflight \ {r}) \cup {[r EXCEPT !.pc = "resolved"]}
    /\ UNCHANGED <<now, issued, nextId, acked, resp, db, phase, client, form, list, notifications>>

StoreInsert ==
    /\ Connected /\ resp = NoResp
    /\ \E r \in inflight :
        /\ r.kind = "create" /\ r.pc = "await"
        /\ store' = store \cup {r.doc}
        /\ inflight' = (inflight \ {r}) \cup {[r EXCEPT !.pc = "resolved"]}
    /\ UNCHANGED <<now, issued, nextId, acked, resp, db, phase, client, form, list, notifications>>

\* The store performs a pending find and sorts its result.
StoreFind ==
    /\ Connected /\ resp = NoResp
    /\ \E r \in inflight :
        /\ r.kind = "list" /\ r.pc = "await"
        /\ \E order \in SortedDescending(store) :
            inflight' = (inflight \ {r}) \cup
                {[r EXCEPT !.pc = "resolved", !.result = order]}
    /\ UNCHANGED <<now, issued, store, nextId, acked, resp, db, phase, client, form, list, notifications>>

\* The store, or the connection to it, fails a pending operation.
StoreFail ==
    /\ Running /\ resp = NoResp
    /\ \E r \in inflight :
        /\ r.pc = "await"
        /\ inflight' = (inflight \ {r}) \cup {[r EXCEPT !.pc = "rejected"]}
    /\ UNCHANGED <<now, issued, store, nextId, acked, resp, db, phase, client, form, list, notifications>>

\* What the store can fail with: a server error, and the driver's timeout
\* when the connection is down.
StoreErrors ==
    {Error("MongoServerError", "E11000 duplicate key error collection: patients"),
     Error("MongooseError", "Operation buffering timed out after 10000ms")}

\* The errors an await of pending handler r can have rejected with.
Rejections(r) ==
    IF r.pc = "invalid"
    THEN {Error("ValidationError", "Patient validation failed")}
    ELSE StoreErrors

\* The response of POST /patients after the await (server.js 196-202).
Created(r) ==
    [Response(r.req, 201, "true", "absent", TRUE)
        EXCEPT !.patient = r.doc, !.message = "Patient added successfully",
               !.at = -1, !.acked0 = r.acked0]

\* The response of GET /patients after the await (server.js 215-221).
Listed(r) ==
    [Response(r.req, 200, "true", "absent", TRUE)
        EXCEPT !.patients = r.result, !.count = Len(r.result),
               !.at = -1, !.acked0 = r.acked0]

\* next(error) after a rejected await: errorHandler answers the error err.
Failed(r, err) ==
    [ErrorHandler(r.req, err) EXCEPT !.at = -1, !.acked0 = r.acked0]

\* POST /patients resumes after `await patient.save()`.
PostPatientsResumeNoAwait ==
    /\ Running /\ resp = NoResp
    /\ \E r \in inflight :
        /\ r.kind = "create"
        /\ inflight' = inflight \ {r}
        /\ IF r.pc \in {"resolved", "await"}
           THEN resp' = Created(r) /\ acked' = acked \cup {r.doc.id}
           ELSE /\ \E e \in Rejections(r) : resp' = Failed(r, e)
                /\ acked' = acked
    /\ UNCHANGED <<now, issued, store, nextId, db, phase, client, form, list, notifications>>

PostPatientsResumeRetry ==
    /\ Running /\ resp = NoResp
    /\ \E r \in inflight :
        /\ r.kind = "create" /\ r.pc # "await"
        /\ IF r.pc = "resolved"
           THEN /\ inflight' = inflight \ {r}
                /\ resp' = Created(r) /\ acked' = acked \cup {r.doc.id}
           ELSE /\ inflight' = (inflight \ {r}) \cup {[r EXCEPT !.pc = "await"]}
                /\ resp' = resp /\ acked' = acked
    /\ UNCHANGED <<now, issued, store, nextId, db, phase, client, form, list, notifications>>

PostPatientsResume ==
    /\ Running /\ resp = NoResp
    /\ \E r \in inflight :
        /\ r.kind = "create" /\ r.pc # "await"
        /\ inflight' = inflight \ {r}
        /\ IF r.pc = "resolved"
           THEN resp' = Created(r) /\ acked' = acked \cup {r.doc.id}
           ELSE /\ \E e \in Rejections(r) : resp' = Failed(r, e)
                /\ acked' = acked
    /\ UNCHANGED <<now, issued, store, nextId, db, phase, client, form, list, notifications>>

\* GET /patients resumes after `await Patient.find().sort(...)`.
GetPatientsResume ==
    /\ Running /\ resp = NoResp
    /\ \E r \in inflight :
        /\ r.kind = "list" /\ r.pc # "await"
        /\ inflight' = inflight \ {r}
        /\ IF r.pc = "resolved"
           THEN resp' = Listed(r)
           ELSE \E e \in Rejections(r) : resp' = Failed(r, e)
    /\ UNCHANGED <<now, issued, store, nextId, acked, db, phase, client, form, list, notifications>>

\* The response has been written to the socket.
Deliver ==
    /\ Running /\ resp # NoResp
    /\ resp' = NoResp
    /\ UNCHANGED <<now, issued, store, inflight, nextId, acked, db, phase, client, form, list, notifications>>

\* GET /health on one of the given requests.
GetHealthOf(reqs) ==
    /\ Listening /\ resp = NoResp
    /\ \E req \in reqs :
        resp' = Stamp(IF Middleware(req) # NoResp THEN Middleware(req)
                      ELSE Health(req, db))
    /\ UNCHANGED <<now, issued, store, inflight, nextId, acked, db, phase, client, form, list, notifications>>

\* A request the middleware answers, or one that matches no route and
\* falls through to app.use('*').
UnroutedOf(reqs) ==
    /\ Listening /\ resp = NoResp
    /\ \E req \in reqs :
        /\ Middleware(req) # NoResp \/ req.route \notin Routes
        /\ resp' = Stamp(IF Middleware(req) # NoResp THEN Middleware(req)
                         ELSE NotFound(req))
    /\ UNCHANGED <<now, issued, store, inflight, nextId, acked, db, phase, client, form, list, notifications>>

\* The client of a suspended request closes its connection (its own
\* timeout aborts the fetch, or the network drops); the handler goes on.
ClientAbort ==
    /\ Running /\ resp = NoResp
    /\ \E r \in inflight :
        /\ r.open
        /\ inflight' = (inflight \ {r}) \cup {[r EXCEPT !.open = FALSE]}
    /\ UNCHANGED <<now, issued, store, nextId, acked, resp, db, phase, client, form, list, notifications>>

\* The store connection is lost, retried and restored (the driver's
\* 'disconnected', 'reconnecting' and 'connected' events), until
\* mongoose.connection.close() is called.
DbDisconnected ==
    /\ phase \in {"up", "closing"} /\ db = 1 /\ db' = 0
    /\ UNCHANGED <<now, issued, store, inflight, nextId, acked, resp, phase, client, form, list, notifications>>

DbReconnecting ==
    /\ phase \in {"up", "closing"} /\ db = 0 /\ db' = 2
    /\ UNCHANGED <<now, issued, store, inflight, nextId, acked, resp, phase, client, form, list, notifications>>

DbConnected ==
    /\ phase \in {"up", "closing"} /\ db = 2 /\ db' = 1
    /\ UNCHANGED <<now, issued, store, inflight, nextId, acked, resp, phase, client, form, list, notifications>>

\* SIGTERM (server.js 263-265): server.close(callback) stops the server
\* from accepting connections; the connections that are open stay open.
Sigterm ==
    /\ phase = "up" /\ phase' = "closing"
    /\ UNCHANGED <<now, issued, store, inflight, nextId, acked, resp, db, client, form, list, notifications>>

\* The callback of server.close() (server.js 265-267), which the server
\* calls once every connection has ended: a connection is open while its
\* response is being sent or its handler is suspended and its client has
\* not closed it. The callback calls mongoose.connection.close().
ServerClosed ==
    /\ phase = "closing" /\ resp = NoResp
    /\ \A r \in inflight : ~r.open
    /\ phase' = "dbclosing"
    /\ db' = IF db = 0 THEN 0 ELSE 3
    /\ UNCHANGED <<now, issued, store, inflight, nextId, acked, resp, client, form, list, notifications>>

\* The store connection has closed; its callback (server.js 267-270) is due.
DbClosed ==
    /\ phase = "dbclosing" /\ phase' = "dbclosed" /\ db' = 0
    /\ UNCHANGED <<now, issued, store, inflight, nextId, acked, resp, client, form, list, notifications>>

\* process.exit(0) (server.js 269).
Exit ==
    /\ phase = "dbclosed" /\ phase' = "exited"
    /\ UNCHANGED <<now, issued, store, inflight, nextId, acked, resp, db, client, form, list, notifications>>

\* makeRequest(endpoint) is called (api.js 92-102): an offline service
\* tests the connection first for /login and /patients.
MakeRequestOf(endpoints) ==
    /\ client.pc \in Settled
    /\ \E e \in endpoints : client' = Started(client, e, "GET", NoBody)
    /\ UNCHANGED <<now, issued, store, inflight, nextId, acked, resp, db, phase, form, list, notifications>>

\* testConnection's fetch of /health resolves (api.js 37-54): the timer is
\* cleared; a response that is not ok makes makeRequest throw.
TestResponds ==
    /\ client.pc = "test" /\ client.timer = "armed"
    /\ \E ok \in BOOLEAN :
        client' = IF ok
                  THEN [client EXCEPT !.timer = "cleared", !.isOnline = TRUE,
                                      !.pc = "token"]
                  ELSE [client EXCEPT !.timer = "cleared", !.pc = "rejected",
                                      !.error = "Network Error: Server returned error"]
    /\ UNCHANGED <<now, issued, store, inflight, nextId, acked, resp, db, phase, form, list, notifications>>

\* testConnection's fetch rejects (api.js 45-63).
TestFails ==
    /\ client.pc = "test" /\ client.timer = "armed"
    /\ client' = [client EXCEPT !.timer = "cleared", !.isOnline = FALSE,
                                !.pc = "rejected",
                                !.error = "Network Error: Cannot reach server"]
    /\ UNCHANGED <<now, issued, store, inflight, nextId, acked, resp, db, phase, form, list, notifications>>

\* getToken resolves and makeRequest arms its timer and calls fetch
\* (api.js 104-138).
GetToken ==
    /\ client.pc = "token"
    /\ client' = [client EXCEPT !.sent = client.token, !.timer = "armed",
                                !.delay = REQUEST_TIMEOUT, !.pc = "fetch"]
    /\ UNCHANGED <<now, issued, store, inflight, nextId, acked, resp, db, phase, form, list, notifications>>

\* The armed timer fires, `delay` after it was set: controller.abort()
\* rejects the pending fetch with an AbortError (api.js 33, 117-119),
\* which testConnection reports as unreachable (55-62) and makeRequest as
\* a timeout (181-183).
TimerFires ==
    /\ client.timer = "armed"
    /\ client' = IF client.pc = "test"
                 THEN [client EXCEPT !.timer = "fired", !.isOnline = FALSE,
                                     !.pc = "rejected",
                                     !.error = "Network Error: Cannot reach server"]
                 ELSE [client EXCEPT !.timer = "fired", !.pc = "rejected",
                                     !.error = "Request timeout"]
    /\ UNCHANGED <<now, issued, store, inflight, nextId, acked, resp, db, phase, form, list, notifications>>

\* fetch resolves with a response (api.js 138-139): the timer is cleared,
\* and the body is read next.
FetchResponds ==
    /\ client.pc = "fetch" /\ client.timer = "armed"
    /\ \E r \in Responses :
        client' = [client EXCEPT !.timer = "cleared", !.status = r.status,
                                 !.data = r.error, !.pc = "body"]
    /\ UNCHANGED <<now, issued, store, inflight, nextId, acked, resp, db, phase, form, list, notifications>>

\* fetch rejects with a network error (api.js 175-189).
FetchFails ==
    /\ client.pc = "fetch" /\ client.timer = "armed"
    /\ client' = Caught([client EXCEPT !.timer = "cleared"], "Network request failed")
    /\ UNCHANGED <<now, issued, store, inflight, nextId, acked, resp, db, phase, form, list, notifications>>

\* response.json() or response.text() resolves (api.js 143-173): a status
\* that is ok resolves the call, which returns to login when login made
\* it; any other throws, after removeToken on 401.
BodyRead ==
    /\ client.pc = "body"
    /\ LET r == Fetched(client.status, client.data) IN
       client' = IF r.status >= 200 /\ r.status <= 299
                 THEN [client EXCEPT !.isOnline = TRUE,
                                     !.pc = IF client.op = "login" THEN "setToken"
                                            ELSE "resolved"]
                 ELSE Caught([client EXCEPT !.token = IF r.status = 401 THEN NoToken
                                                     ELSE client.token],
                             HttpErrorMessage(r))
    /\ UNCHANGED <<now, issued, store, inflight, nextId, acked, resp, db, phase, form, list, notifications>>

\* Reading the body rejects: the text is not JSON, or the connection fails.
BodyFails ==
    /\ client.pc = "body"
    /\ \E msg \in {"JSON Parse error: Unexpected EOF", "Network request failed"} :
        client' = Caught(client, msg)
    /\ UNCHANGED <<now, issued, store, inflight, nextId, acked, resp, db, phase, form, list, notifications>>

\* setToken(token) (api.js 75-82), between calls.
SetTokenOf(tokens) ==
    /\ client.pc \in Settled
    /\ \E tok \in tokens : client' = [client EXCEPT !.token = tok]
    /\ client' # client
    /\ UNCHANGED <<now, issued, store, inflight, nextId, acked, resp, db, phase, form, list, notifications>>

\* fetch resolves with the response the server is sending to this call
\* (api.js 138-139): the timer is cleared, the body is read next.
FetchReceives ==
    /\ client.pc = "fetch" /\ client.timer = "armed"
    /\ resp # NoResp /\ resp.req = RequestOf(client)
    /\ client' = [client EXCEPT !.timer = "cleared", !.status = resp.status,
                                !.data = resp.error, !.success = resp.success,
                                !.got = resp.token, !.pc = "body"]
    /\ resp' = NoResp
    /\ UNCHANGED <<now, issued, store, inflight, nextId, acked, db, phase, form, list, notifications>>

\* login(username, password) up to its await of makeRequest (api.js
\* 200-215): the input validation, then POST /login with the trimmed
\* values.
LoginOf(usernames, passwords) ==
    /\ client.pc \in Settled
    /\ \E u \in usernames, p \in passwords :
        client' = IF LoginRejected(u, p)
                  THEN [client EXCEPT !.op = "login", !.pc = "rejected",
                                      !.error = "Username and password are required"]
                  ELSE Started([client EXCEPT !.op = "login"], "/login", "POST",
                               LoginBody(Str(Trim(u.s)), Str(Trim(p.s))))
    /\ UNCHANGED <<now, issued, store, inflight, nextId, acked, resp, db, phase, form, list, notifications>>

\* login after makeRequest returned (api.js 217-224): setToken when the
\* body has success and a token, an error otherwise.
LoginResume ==
    /\ client.pc = "setToken"
    /\ client' = IF client.success = "true" /\ client.got # NoToken
                 THEN [client EXCEPT !.token = client.got, !.pc = "resolved"]
                 ELSE [client EXCEPT !.pc = "rejected",
                                     !.error = IF client.data # "absent"
                                               THEN client.data ELSE "Login failed"]
    /\ UNCHANGED <<now, issued, store, inflight, nextId, acked, resp, db, phase, form, list, notifications>>

\* logout() (api.js 289-299): removeToken, isOnline = true; no request is
\* made, and nothing of the call before is kept.
Logout ==
    /\ client.pc \in Settled
    /\ client' = [NoCall EXCEPT !.op = "logout", !.pc = "resolved"]
    /\ UNCHANGED <<now, issued, store, inflight, nextId, acked, resp, db, phase, form, list, notifications>>

\* getPatients() (api.js 267-277): makeRequest('/patients').
GetPatientsCall ==
    /\ client.pc \in Settled
    /\ client' = Started([client EXCEPT !.op = "getPatients"], "/patients", "GET", NoBody)
    /\ UNCHANGED <<now, issued, store, inflight, nextId, acked, resp, db, phase, form, list, notifications>>

\* The client after addPatient(patientData) up to its await of makeRequest
\* (api.js 231-257): the input validation, then POST /patients with the
\* data as given.
AddPatient(c, patientData) ==
    LET v == AddPatientCheck(patientData) IN
    IF v.out # "ok"
    THEN [c EXCEPT !.op = "addPatient", !.pc = "rejected", !.error = v.error,
                   !.endpoint = "/patients", !.method = "POST",
                   !.body = patientData, !.sent = NoToken, !.timer = "none",
                   !.status = 0, !.data = "absent", !.success = "absent",
                   !.got = NoToken, !.caught = ""]
    ELSE Started([c EXCEPT !.op = "addPatient"], "/patients", "POST", patientData)

AddPatientOf(bodies) ==
    /\ client.pc \in Settled
    /\ \E b \in bodies : client' = AddPatient(client, b)
    /\ UNCHANGED <<now, issued, store, inflight, nextId, acked, resp, db, phase, form, list, notifications>>

\* ---------------------------------------------------------- AddPatientScreen
\* The inputs of the form change its fields (AddPatientScreen.js 26-31,
\* 119-169), after the alert on show was dismissed: they are not editable
\* while loading.
UpdateFieldOf(names, ages, genders, villages, healthIssues) ==
    /\ ~form.loading
    /\ \E n \in names, a \in ages, g \in genders, v \in villages, h \in healthIssues :
        form' = [form EXCEPT !.patientData = PatientBody(n, a, g, v, h), !.alert = ""]
    /\ form'.patientData # form.patientData
    /\ UNCHANGED <<now, issued, store, inflight, nextId, acked, resp, db, phase, client, list, notifications>>

\* The submit control is pressed (AddPatientScreen.js 59-67, 171-175): it
\* is disabled while loading. A form validateForm rejects shows an alert; a
\* valid one sets loading and calls ApiService.addPatient.
HandleSubmit ==
    /\ ~form.loading /\ form.pc = "idle"
    /\ LET v == ValidateForm(form.patientData) IN
       IF v.out # "ok"
       THEN /\ form' = [form EXCEPT !.alert = v.error]
            /\ UNCHANGED client
       ELSE /\ client.pc \in Settled
            /\ form' = [form EXCEPT !.loading = TRUE, !.alert = "", !.pc = "addPatient"]
            /\ client' = AddPatient(client, form.patientData)
    /\ UNCHANGED <<now, issued, store, inflight, nextId, acked, resp, db, phase, list, notifications>>

\* handleSubmit without its finally block: an error leaves loading set.
HandleSubmitResumeNoFinally ==
    /\ form.pc = "addPatient" /\ client.op = "addPatient"
    /\ client.pc \in {"resolved", "rejected"}
    /\ form' = IF client.pc = "resolved" /\ client.success = "true"
               THEN [form EXCEPT !.pc = "notify"]
               ELSE [form EXCEPT !.pc = "idle",
                                 !.alert = IF client.pc = "rejected" /\ client.error # ""
                                           THEN client.error
                                           ELSE IF client.pc = "resolved" /\ client.data # "absent"
                                           THEN client.data
                                           ELSE "Failed to add patient"]
    /\ UNCHANGED <<now, issued, store, inflight, nextId, acked, resp, db, phase, client, list, notifications>>

\* handleSubmit after addPatient settled (AddPatientScreen.js 67-108): a
\* body with success goes on to the notification; a body without, or an
\* error, shows the error alert, and finally resets loading.
HandleSubmitResume ==
    /\ form.pc = "addPatient" /\ client.op = "addPatient"
    /\ client.pc \in {"resolved", "rejected"}
    /\ form' = IF client.pc = "resolved" /\ client.success = "true"
               THEN [form EXCEPT !.pc = "notify"]
               ELSE [form EXCEPT !.pc = "idle", !.loading = FALSE,
                                 !.alert = IF client.pc = "rejected" /\ client.error # ""
                                           THEN client.error
                                           ELSE IF client.pc = "resolved" /\ client.data # "absent"
                                           THEN client.data
                                           ELSE "Failed to add patient"]
    /\ UNCHANGED <<now, issued, store, inflight, nextId, acked, resp, db, phase, client, list, notifications>>

\* notifyPatientAdded settles (AddPatientScreen.js 71-108,
\* notificationService.js 111-146, 259-270): a service that is not
\* initialised returns null; an initialised one schedules the notification
\* or throws, which handleSubmit catches. Then the success alert, and
\* finally loading is reset.
NotifyPatientAddedOrFail ==
    /\ form.pc = "notify"
    /\ \E scheduled \in BOOLEAN :
        /\ notifications' =
            IF notifications.isInitialized /\ scheduled
            THEN [notifications EXCEPT !.scheduled = 1]
            ELSE notifications
        /\ form' = IF notifications.isInitialized /\ scheduled
                   THEN [form EXCEPT !.pc = "idle", !.loading = FALSE,
                                     !.alert = "Patient added successfully!"]
                   ELSE [form EXCEPT !.pc = "idle", !.loading = FALSE,
                                     !.alert = "Failed to add patient"]
    /\ UNCHANGED <<now, issued, store, inflight, nextId, acked, resp, db, phase, client, list>>

NotifyPatientAdded ==
    /\ form.pc = "notify"
    /\ \E scheduled \in BOOLEAN :
        notifications' =
            IF notifications.isInitialized /\ scheduled
            THEN [notifications EXCEPT !.scheduled = 1]
            ELSE notifications
    /\ form' = [form EXCEPT !.pc = "idle", !.loading = FALSE,
                            !.alert = "Patient added successfully!"]
    /\ UNCHANGED <<now, issued, store, inflight, nextId, acked, resp, db, phase, client, list>>

\* initialize() with the permission granted (notificationService.js 21-85).
Initialize ==
    /\ ~notifications.isInitialized
    /\ notifications' = [notifications EXCEPT !.isInitialized = TRUE]
    /\ UNCHANGED <<now, issued, store, inflight, nextId, acked, resp, db, phase, client, form, list>>

\* --------------------------------------------------------- PatientListScreen
\* The screen after fetchPatients(showLoading) has run to its await of
\* ApiService.getPatients() (PatientListScreen.js 24-30).
FetchPatients(l, showLoading) ==
    [l EXCEPT !.loading = IF showLoading THEN TRUE ELSE l.loading,
              !.started = l.started + 1,
              !.fetches = l.fetches \cup
                          {[n |-> l.started + 1, pc |-> "await", patients |-> <<>>]},
              !.latest = <<-1>>]

CanFetch == Cardinality(list.fetches) < MaxFetches /\ list.started < MaxStarted

\* The effect of the mount (PatientListScreen.js 136-137): fetchPatients().
Mount ==
    /\ list.started = 0
    /\ list' = FetchPatients(list, TRUE)
    /\ UNCHANGED <<now, issued, store, inflight, nextId, acked, resp, db, phase, client, form, notifications>>

\* The focus listener (PatientListScreen.js 140-142): fetchPatients(false).
Focus ==
    /\ list.started > 0 /\ CanFetch
    /\ list' = FetchPatients(list, FALSE)
    /\ UNCHANGED <<now, issued, store, inflight, nextId, acked, resp, db, phase, client, form, notifications>>

\* Pull-to-refresh (PatientListScreen.js 45-48): the list and its
\* RefreshControl are rendered when loading is false.
OnRefresh ==
    /\ list.started > 0 /\ CanFetch /\ ~list.loading
    /\ list' = FetchPatients([list EXCEPT !.refreshing = TRUE], FALSE)
    /\ UNCHANGED <<now, issued, store, inflight, nextId, acked, resp, db, phase, client, form, notifications>>

\* The server answers the request of one call: GET /patients reads the
\* store as it is then (server.js 210-219), or the request fails.
GetPatientsAnswered ==
    /\ \E f \in list.fetches :
        /\ f.pc = "await"
        /\ \E ok \in BOOLEAN, order \in SortedDescending(store) :
            LET g == IF ok
                     THEN [f EXCEPT !.pc = "answered",
                                    !.patients = [i \in 1..Len(order) |-> order[i].id]]
                     ELSE [f EXCEPT !.pc = "failed"]
            IN  list' = [list EXCEPT !.fetches = (list.fetches \ {f}) \cup {g},
                                     !.latest = IF f.n = list.started /\ ok
                                                THEN g.patients ELSE list.latest]
    /\ UNCHANGED <<now, issued, store, inflight, nextId, acked, resp, db, phase, client, form, notifications>>

\* The response of one call arrives and fetchPatients resumes
\* (PatientListScreen.js 30-42): setPatients on success, an alert on an
\* error, and finally loading and refreshing are reset.
FetchPatientsResume ==
    /\ \E f \in list.fetches :
        /\ f.pc \in {"answered", "failed"}
        /\ list' = IF f.pc = "answered"
                   THEN [list EXCEPT !.fetches = list.fetches \ {f},
                                     !.patients = f.patients, !.shown = f.n,
                                     !.loading = FALSE, !.refreshing = FALSE]
                   ELSE [list EXCEPT !.fetches = list.fetches \ {f},
                                     !.alert = "Failed to fetch patients",
                                     !.loading = FALSE, !.refreshing = FALSE]
    /\ UNCHANGED <<now, issued, store, inflight, nextId, acked, resp, db, phase, client, form, notifications>>

\* ------------------------------------------------------------------ inputs
OTHER_USERNAME == <<"a", "d", "m", "i", "n">>
WRONG_PASSWORD == <<"l", "e", "t", "m", "e", "i", "n">>
LoginRequestsOf(usernames, passwords) ==
    {Request("POST /login", NoHeader, LoginBody(u, p)) :
        u \in usernames, p \in passwords}

\* A token signed with a secret that is not the server's.
Forged == JwtSign(HARDCODED_USERNAME, "attacker-secret", now)

\* The Authorization headers a caller can present: none, a scheme alone,
\* a scheme and an empty part ("Bearer "), garbage, a forged token, an
\* issued token with and without a scheme before it.
BadHeaders ==
    {NoHeader, Header(<<Word>>), Header(<<Word, Empty>>), Header(<<Word, Word>>),
     Header(<<Word, Forged>>)}
    \cup {Header(<<i.tok>>) : i \in issued}
IssuedHeaders == {Header(<<Word, i.tok>>) : i \in issued}
Headers == BadHeaders \cup IssuedHeaders

\* The values a caller sends in each patient field. The first set of each
\* pair holds a value every check accepts; the second holds absent, empty,
\* blank, out-of-range, wrongly cased and non-text values.
Ravi == <<" ", "R", "a", "v", "i", "\t">>
Koli == <<"K", "o", "l", "i", " ">>
Fever == <<"\n", "f", "e", "v", "e", "r">>
GoodName == {Str(Ravi)}
GoodAge == {Num(10)}
GoodGender == {Str(Male)}
GoodVillage == {Str(Koli)}
GoodHealthIssue == {Str(Fever)}
OddName == {Undef, Str(<<" ", "\t">>), Num(50)}
OddAge ==
    {Undef, Null, Bool(TRUE), Num(0), Num(5), Num(15), Num(-10), Num(1500),
     Num(1509), Num(1510), Str(<<>>), Str(<<"0">>), Str(<<" ", "7">>),
     Str(<<"1", "5", "0">>), Str(<<"1", "5", "1">>), Str(<<"1", "2", "a">>),
     Str(<<"a", "1">>), Str(<<"-", "5">>)}
OddGender == {Undef, Str(<<"m", "a", "l", "e">>), Str(Other), Num(10)}
OddVillage == {Null, Str(<<>>), Num(5)}
OddHealthIssue == {Undef, Str(<<" ">>), Bool(TRUE)}

\* Every combination of those values.
PatientBodies ==
    {PatientBody(n, a, g, v, h) :
        n \in GoodName \cup OddName, a \in GoodAge \cup OddAge,
        g \in GoodGender \cup OddGender, v \in GoodVillage \cup OddVillage,
        h \in GoodHealthIssue \cup OddHealthIssue}

\* Three bodies: one that passes every check, one that fails a check, one
\* on which a check throws.
ProbeBodies ==
    {PatientBody(Str(Ravi), Num(10), Str(Male), Str(Koli), Str(Fever)),
     PatientBody(Str(Ravi), Num(0), Str(Male), Str(Koli), Str(Fever)),
     PatientBody(Num(50), Num(10), Str(Male), Str(Koli), Str(Fever))}

\* Requests of GET /health and requests the routes do not handle: well
\* formed and malformed, with the given headers and bodies.
ProbeBody == PatientBody(Str(Ravi), Num(10), Str(Male), Str(Koli), Str(Fever))
HealthRequestsOf(headers) == {Request("GET /health", h, NoBody) : h \in headers}
OtherRequestsOf(routes, headers, bodies) ==
    LET reqs == {Request(r, h, b) : r \in routes, h \in headers, b \in bodies}
    IN  reqs \cup {Malformed(Request(r, h, NoBody)) : r \in routes, h \in headers}

CreateRequestsOf(headers, bodies) ==
    {Request("POST /patients", h, b) : h \in headers, b \in bodies}
ListRequestsOf(headers) == {Request("GET /patients", h, NoBody) : h \in headers}

\* --------------------------------------------- Spec: the store, concurrently
\* Requests with the configured login and with a wrong password, creates and
\* lists with and without a token, the health check, a request that matches
\* no route, two clock readings one millisecond apart.
Tick == AdvanceTo({0, 1})
PostLogin ==
    PostLoginOf(LoginRequestsOf({Str(HARDCODED_USERNAME)},
                                {Str(HARDCODED_PASSWORD), Str(WRONG_PASSWORD)}))
PostPatients == PostPatientsOf(CreateRequestsOf(IssuedHeaders \cup {NoHeader}, ProbeBodies))
GetPatients == GetPatientsOf(ListRequestsOf(IssuedHeaders \cup {NoHeader}))
GetHealth == GetHealthOf(HealthRequestsOf({NoHeader}))
Unrouted == UnroutedOf(OtherRequestsOf({"PUT /patients"}, {NoHeader}, {ProbeBody}))

Next ==
    \/ Tick
    \/ PostLogin
    \/ PostPatients
    \/ GetPatients
    \/ GetHealth
    \/ Unrouted
    \/ StoreInsert
    \/ StoreFind
    \/ StoreFail
    \/ PostPatientsResume
    \/ GetPatientsResume
    \/ Deliver

Spec == Init /\ [][Next]_vars

\* ------------------------------------- SpecGate: tokens, headers and the clock
\* Every header on both protected routes, at clock readings half a second
\* apart, just short of 24 hours apart and 24 hours apart. The store does
\* not answer.
ClockReadings == {0, 500, 86399900, 86400000, 86400500}
Advance == AdvanceTo(ClockReadings)
PostPatientsGate == PostPatientsOf(CreateRequestsOf(Headers, ProbeBodies))
GetPatientsGate == GetPatientsOf(ListRequestsOf(Headers))

NextGate ==
    \/ Advance
    \/ PostLogin
    \/ PostPatientsGate
    \/ GetPatientsGate
    \/ Deliver

SpecGate == Init /\ [][NextGate]_vars

\* ------------------------------------------- SpecInput: the space of bodies
\* Every login body and every patient body, one request at a time on an
\* empty store, at one clock reading.
PostLoginWide ==
    PostLoginOf(LoginRequestsOf(
        {Undef, Null, Str(<<>>), Num(0), Num(70), Bool(FALSE),
         Str(HARDCODED_USERNAME), Str(OTHER_USERNAME)},
        {Undef, Null, Str(<<>>), Num(0), Bool(TRUE),
         Str(HARDCODED_PASSWORD), Str(WRONG_PASSWORD)}))
PostPatientsWide ==
    /\ store = {} /\ inflight = {}
    /\ PostPatientsOf(CreateRequestsOf(IssuedHeaders, PatientBodies))

NextInput ==
    \/ PostLoginWide
    \/ PostPatientsWide
    \/ StoreInsert
    \/ StoreFail
    \/ PostPatientsResume
    \/ Deliver

SpecInput == Init /\ [][NextInput]_vars

\* ------------------------------ SpecOps: the process and its store connection
\* Logins, creates, the health check and requests the routes do not handle,
\* while the store connection drops and returns, clients close their
\* connections and the process is told to terminate.
PostPatientsOps == PostPatientsOf(CreateRequestsOf(IssuedHeaders, {ProbeBody}))
GetHealthOps == GetHealthOf(HealthRequestsOf(IssuedHeaders \cup {NoHeader}))
UnroutedOps ==
    UnroutedOf(OtherRequestsOf(OtherRoutes \cup {"POST /login"},
                               IssuedHeaders \cup {NoHeader}, {ProbeBody}))

NextOps ==
    \/ PostLogin
    \/ PostPatientsOps
    \/ GetHealthOps
    \/ UnroutedOps
    \/ StoreInsert
    \/ StoreFail
    \/ PostPatientsResume
    \/ Deliver
    \/ ClientAbort
    \/ DbDisconnected
    \/ DbReconnecting
    \/ DbConnected
    \/ Sigterm
    \/ ServerClosed
    \/ DbClosed
    \/ Exit

SpecOps == Init /\ [][NextOps]_vars

\* ------------------------------------------- SpecClient: ApiService.makeRequest
\* One call of makeRequest after another, on every endpoint, with and
\* without a stored token, against every answer of the network. A timer
\* that is armed fires, and getToken resolves; nothing obliges the network
\* to answer.
Endpoints == {"/login", "/patients", "/health"}
MakeRequest == MakeRequestOf(Endpoints)
SetToken == SetTokenOf({JwtSign(HARDCODED_USERNAME, JWT_SECRET, 0)})

NextClient ==
    \/ MakeRequest
    \/ SetToken
    \/ Logout
    \/ TestResponds
    \/ TestFails
    \/ GetToken
    \/ TimerFires
    \/ FetchResponds
    \/ FetchFails
    \/ BodyRead
    \/ BodyFails

SpecClient ==
    /\ Init /\ [][NextClient]_vars
    /\ WF_vars(GetToken) /\ WF_vars(TimerFires)

\* ------------------------------------ SpecSession: the client and the server
\* The ApiService logs in with the configured pair and with a wrong
\* password, lists the patients and logs out, one call at a time over a
\* network that delivers; the server answers the request fetch sent.
\* Between the client's calls, a caller that holds an issued token presents
\* it again. The clock reaches 24 hours.
Quiet == inflight = {} /\ resp = NoResp
Fetching == client.pc = "fetch" /\ client.timer = "armed"

SessionLogin ==
    /\ Quiet
    /\ LoginOf({Str(HARDCODED_USERNAME)}, {Str(HARDCODED_PASSWORD), Str(WRONG_PASSWORD)})
SessionGetPatients == Quiet /\ GetPatientsCall
ServeLogin ==
    /\ Fetching /\ client.endpoint = "/login" /\ client.method = "POST"
    /\ PostLoginOf({RequestOf(client)})
ServeGetPatients ==
    /\ Fetching /\ client.endpoint = "/patients" /\ client.method = "GET"
    /\ inflight = {}
    /\ GetPatientsOf({RequestOf(client)})
ReplayGetPatients ==
    /\ client.pc \in Settled
    /\ GetPatientsOf(ListRequestsOf(IssuedHeaders))
DeliverReplay == client.pc \in Settled /\ Deliver

NextSession ==
    \/ Advance
    \/ SessionLogin
    \/ SessionGetPatients
    \/ Logout
    \/ GetToken
    \/ ServeLogin
    \/ ServeGetPatients
    \/ ReplayGetPatients
    \/ StoreFind
    \/ GetPatientsResume
    \/ FetchReceives
    \/ DeliverReplay
    \/ BodyRead
    \/ LoginResume

SpecSession == Init /\ [][NextSession]_vars

\* ---------------------------------------- SpecForm: AddPatientScreen, coupled
\* The client logs in, the form is filled with values validateForm and
\* the server accept or reject, and submitted; the server answers the
\* create, the store inserts or fails, the network delivers, fails or
\* stalls until the timer fires; the notification service is initialised or
\* not. A request is sent once the server has answered the one before.
FormLogin == Quiet /\ form.pc = "idle" /\ LoginOf({Str(HARDCODED_USERNAME)}, {Str(HARDCODED_PASSWORD)})
FormGetToken == Quiet /\ GetToken
ServePostPatients ==
    /\ Fetching /\ client.endpoint = "/patients" /\ client.method = "POST"
    /\ inflight = {}
    /\ PostPatientsOf({RequestOf(client)})
DeliverLate == ~Fetching /\ Deliver
UpdateField ==
    UpdateFieldOf({Str(Ravi), Str(<<" ">>)},
                  {Str(<<"7">>), Str(<<"1", "5", "1">>), Str(<<"0">>)},
                  {Str(Male)}, {Str(Koli)}, {Str(Fever)})

NextForm ==
    \/ FormLogin
    \/ ServeLogin
    \/ LoginResume
    \/ Initialize
    \/ UpdateField
    \/ HandleSubmit
    \/ TestResponds
    \/ TestFails
    \/ FormGetToken
    \/ ServePostPatients
    \/ StoreInsert
    \/ StoreFail
    \/ PostPatientsResume
    \/ FetchReceives
    \/ FetchFails
    \/ TimerFires
    \/ DeliverLate
    \/ BodyRead
    \/ HandleSubmitResume
    \/ NotifyPatientAdded

SpecForm == Init /\ [][NextForm]_vars

\* ------------------------------------ SpecPrecheck: the client's validation
\* A first call of addPatient with every patient body; or the form is
\* filled with every combination of texts and submitted, again and again.
\* A request that is sent gets no answer, and the timer fires.
AddPatientWide == form = NoForm /\ client = NoCall /\ AddPatientOf(PatientBodies)
UpdateFieldWide ==
    /\ client.pc \in Settled /\ (form = NoForm => client = NoCall)
    /\ UpdateFieldOf({Str(Ravi), Str(<<>>), Str(<<" ", "\t">>)},
                     {Str(<<" ">>), Str(<<"0">>), Str(<<" ", "7">>),
                      Str(<<"1", "5", "0">>), Str(<<"1", "5", "1">>),
                      Str(<<"1", "2", "a">>), Str(<<"a", "1">>), Str(<<"-", "5">>)},
                     {Str(Male), Str(Other)},
                     {Str(Koli), Str(<<>>)},
                     {Str(Fever), Str(<<" ">>)})
HandleSubmitWide == form # NoForm /\ HandleSubmit

NextPrecheck ==
    \/ AddPatientWide
    \/ UpdateFieldWide
    \/ HandleSubmitWide
    \/ GetToken
    \/ TimerFires
    \/ HandleSubmitResume

SpecPrecheck == Init /\ [][NextPrecheck]_vars

\* ------------------------------------------- SpecList: PatientListScreen
\* The list screen fetches on mount, on focus and on pull-to-refresh, up to
\* MaxFetches calls at a time, while patients are created on the server;
\* the answers arrive in any order.
NextList ==
    \/ PostLogin
    \/ PostPatients
    \/ StoreInsert
    \/ PostPatientsResume
    \/ Deliver
    \/ Mount
    \/ Focus
    \/ OnRefresh
    \/ GetPatientsAnswered
    \/ FetchPatientsResume

SpecList == Init /\ [][NextList]_vars

\* ------------------------------------------------------- claims: vocabulary
IsLogin == resp.req.route = "POST /login"
IsProtected == resp.req.route \in {"POST /patients", "GET /patients"}
IsCreate == resp.req.route = "POST /patients"
IsList == resp.req.route = "GET /patients"

\* The response was sent by the step that received the request.
Immediate == resp # NoResp /\ resp.at >= 0

\* The body of a response as the caller sees it.
Visible(r) ==
    [status |-> r.status, success |-> r.success, error |-> r.error,
     message |-> r.message, token |-> r.token, user |-> r.user,
     patient |-> r.patient, patients |-> r.patients, count |-> r.count,
     details |-> r.details, health |-> r.health, database |-> r.database]

AuthFailure == resp.status \in {401, 403}
TokenOf(r) == HeaderToken(r.req.auth)

\* ---------------------------------------------------------------------- C1
\* The response to the configured pair: 200, success, a token, the user.
LoginGranted ==
    IsLogin /\ resp.req.body = LoginBody(Str(HARDCODED_USERNAME), Str(HARDCODED_PASSWORD))
    => /\ resp.status = 200 /\ resp.success = "true"
       /\ resp.token.k = "jwt"
       /\ resp.user = [username |-> Str(HARDCODED_USERNAME), role |-> "asha_worker"]
       /\ \E i \in issued : i.tok = resp.token /\ i.at = resp.at

\* C1 as stated: the configured pair gets 200 with success, a token and the
\* user; a protected request carrying that token is accepted at every time
\* less than 24 hours (86400000 ms) after the token was issued and rejected
\* at every time more than 24 hours after.
C1_Original ==
    /\ LoginGranted
    /\ \A i \in issued :
        Immediate /\ IsProtected /\ resp.req.auth = Header(<<Word, i.tok>>)
        => /\ resp.at - i.at < 86400000 => ~AuthFailure
           /\ resp.at - i.at > 86400000 => AuthFailure

\* C1 amended: the configured pair gets 200 with success, a token and the
\* user; the token is accepted while the clock, in whole seconds, is less
\* than the issuance time in whole seconds plus 86400, and rejected from
\* then on: accepted at every time up to 24 h minus one second after
\* issuance, rejected at every time from 24 h after issuance.
C1_TokenLifetime ==
    /\ LoginGranted
    /\ \A i \in issued :
        Immediate /\ IsProtected /\ resp.req.auth = Header(<<Word, i.tok>>)
        => /\ resp.at \div 1000 < i.at \div 1000 + 86400 => ~AuthFailure /\ resp.ran
           /\ resp.at \div 1000 >= i.at \div 1000 + 86400 => resp.status = 403
           /\ resp.at - i.at <= 86400000 - 1000 => ~AuthFailure
           /\ resp.at - i.at >= 86400000 => AuthFailure

\* A token is accepted more than 23 h 59 min after it was issued.
C1_Witness ==
    \E i \in issued :
        /\ Immediate /\ IsProtected /\ resp.req.auth = Header(<<Word, i.tok>>)
        /\ resp.at - i.at > 86340000
        /\ resp.ran

\* ---------------------------------------------------------------------- C4
\* The header h carries a token that /login issued and that has not expired
\* at time t.
CarriesValidToken(h, t) ==
    \E i \in issued : HeaderToken(h) = i.tok /\ t \div 1000 < i.tok.exp

\* C4: a POST /patients or GET /patients without a token, or with a
\* malformed, wrongly signed or expired one, is answered 401 or 403 without
\* the handler body running; no handler is suspended at the store for such
\* a request, and the step that answers it changes neither the store, nor
\* the suspended handlers, nor the next _id.
C4_StateBad ==
    /\ Immediate /\ IsProtected /\ ~CarriesValidToken(resp.req.auth, resp.at)
        => AuthFailure /\ ~resp.ran /\ resp.success # "true"
    /\ \A r \in inflight :
        r.kind = "create" => CarriesValidToken(r.req.auth, r.doc.createdAt)

C4_StepBad ==
    resp = NoResp /\ resp' # NoResp /\ resp'.at >= 0
    /\ resp'.req.route \in {"POST /patients", "GET /patients"}
    /\ ~CarriesValidToken(resp'.req.auth, resp'.at)
    => store' = store /\ inflight' = inflight /\ nextId' = nextId

Configured == LoginBody(Str(HARDCODED_USERNAME), Str(HARDCODED_PASSWORD))
AbsentOrEmpty(v) == v \in {Undef, Null, Str(<<>>)}
AbsentOrFalsy(v) == v \in {Undef, Null, Str(<<>>), Num(0), Bool(FALSE)}

\* C2 as stated: a login whose pair is not the configured one fails without
\* a token: 400 'Username and password are required' when a field is absent
\* or empty, otherwise 401 'Invalid credentials'.
C2_Original ==
    IsLogin /\ resp.req.body # Configured =>
        /\ resp.token = NoToken /\ resp.success = "false"
        /\ IF AbsentOrEmpty(resp.req.body.username) \/ AbsentOrEmpty(resp.req.body.password)
           THEN resp.status = 400 /\ resp.error = "Username and password are required"
           ELSE resp.status = 401 /\ resp.error = "Invalid credentials"

C2_StateFailed ==
    IsLogin /\ resp.req.body # Configured =>
        /\ resp.token = NoToken /\ resp.success = "false"
        /\ IF AbsentOrFalsy(resp.req.body.username) \/ AbsentOrFalsy(resp.req.body.password)
           THEN resp.status = 400 /\ resp.error = "Username and password are required"
           ELSE resp.status = 401 /\ resp.error = "Invalid credentials"

C2_StepIssue ==
    issued' # issued =>
        /\ resp'.req.route = "POST /login" /\ resp'.req.body = Configured
        /\ resp'.status = 200

\* C2 amended: a login whose pair is not the configured one fails without a
\* token: 400 'Username and password are required' when a field is absent,
\* null, the empty string, the number 0 or false, otherwise 401 'Invalid
\* credentials'; a token is issued only by the step that answers the
\* configured pair with 200.
C2_FailedLogin == []C2_StateFailed /\ [][C2_StepIssue]_vars

\* A login with the configured username and a wrong password is answered.
C2_Witness ==
    /\ IsLogin /\ resp.status = 401
    /\ resp.req.body = LoginBody(Str(HARDCODED_USERNAME), Str(WRONG_PASSWORD))

\* ---------------------------------------------------------------------- C3
NonEmptyText(v) == v.t = "string" /\ v.s # <<>>

\* The three ways two non-empty texts fail to be the configured pair.
WrongPairs ==
    {LoginBody(Str(OTHER_USERNAME), Str(HARDCODED_PASSWORD)),
     LoginBody(Str(HARDCODED_USERNAME), Str(WRONG_PASSWORD)),
     LoginBody(Str(OTHER_USERNAME), Str(WRONG_PASSWORD))}

\* C3: the answer to a login with non-empty username and password that is
\* not the configured pair has the status and body of the answer to every
\* other such login, whichever field is wrong.
C3_NoFieldLeak ==
    /\ IsLogin /\ resp.req.body # Configured
    /\ NonEmptyText(resp.req.body.username) /\ NonEmptyText(resp.req.body.password)
    => \A b \in WrongPairs :
        Visible(Login(Request("POST /login", NoHeader, b), now)) = Visible(resp)

\* A login with the right password and another username is answered.
C3_Witness ==
    /\ IsLogin /\ resp.status = 401
    /\ resp.req.body = LoginBody(Str(OTHER_USERNAME), Str(HARDCODED_PASSWORD))

\* ------------------------------------------------- the five rules, as stated
\* name, village, healthIssue: text that is not empty after trimming.
TextPresent(v) == v.t = "string" /\ Trim(v.s) # <<>>

RECURSIVE AllDigits(_)
AllDigits(s) == s = <<>> \/ (IsDigit(Head(s)) /\ AllDigits(Tail(s)))

\* The value is an integer: a number without a fraction, or text that is,
\* white space aside, an optional sign and digits only.
IsInteger(v) ==
    \/ v.t = "number" /\ v.n % 10 = 0
    \/ /\ v.t = "string"
       /\ LET u == Trim(v.s)
              d == IF u # <<>> /\ Head(u) \in {"-", "+"} THEN Tail(u) ELSE u
          IN  d # <<>> /\ AllDigits(d)
IntegerOf(v) == ParseInt(v).v

\* age: an integer from 1 to 150.
AgeInRange(v) == IsInteger(v) /\ IntegerOf(v) >= 1 /\ IntegerOf(v) <= 150

\* gender: one of Male, Female, Other, in that exact case.
GenderListed(v) == v.t = "string" /\ v.s \in {Male, Female, Other}

SatisfiesAll(b) ==
    /\ TextPresent(b.name) /\ AgeInRange(b.age) /\ GenderListed(b.gender)
    /\ TextPresent(b.village) /\ TextPresent(b.healthIssue)

\* A response of POST /patients to a request that passed authenticateToken.
AuthenticatedCreate == IsCreate /\ ~AuthFailure

\* ---------------------------------------------------------------------- C6
\* The error of the first rule a body violates, in the order name, age,
\* gender, village, healthIssue; "none" when it violates no rule. The age
\* rule is taken as the handler reads it (parseInt), so that this claim
\* does not depend on how strictly an age must be an integer.
FirstViolated(b) ==
    IF ~TextPresent(b.name) THEN "Patient name is required"
    ELSE IF AgeRejected(b.age) THEN "Valid age is required (1-150)"
    ELSE IF ~GenderListed(b.gender)
    THEN "Valid gender is required (Male, Female, Other)"
    ELSE IF ~TextPresent(b.village) THEN "Village name is required"
    ELSE IF ~TextPresent(b.healthIssue) THEN "Health issue description is required"
    ELSE "none"

\* C6: an authenticated POST /patients whose body violates a rule is
\* answered 400 with the error of the first rule it violates, in the order
\* name, age, gender, village, healthIssue.
C6_FirstViolatedRule ==
    AuthenticatedCreate /\ FirstViolated(resp.req.body) # "none" =>
        /\ resp.status = 400 /\ resp.success = "false"
        /\ resp.error = FirstViolated(resp.req.body)

\* ---------------------------------------------------------------------- C7
\* The record of a 201 carries the trimmed texts, the gender as sent and
\* the age as an integer, and is the one record the store holds.
RecordOfInput ==
    /\ resp.patient.name = Trim(resp.req.body.name.s)
    /\ resp.patient.village = Trim(resp.req.body.village.s)
    /\ resp.patient.healthIssue = Trim(resp.req.body.healthIssue.s)
    /\ resp.patient.gender = resp.req.body.gender.s
    /\ resp.patient.age = IntegerOf(resp.req.body.age)
    /\ store = {resp.patient}

\* C7 as stated: an authenticated POST /patients whose body satisfies the
\* five rules is answered 201 with success and the record of its input, and
\* exactly one record is added.
C7_Original ==
    AuthenticatedCreate /\ SatisfiesAll(resp.req.body) =>
        resp.status = 201 /\ resp.success = "true" /\ RecordOfInput

\* C7 amended: such a request is answered 201 with success and the record
\* of its input, exactly one record being added, provided the store accepts
\* the write; when patient.save() rejects, it is answered 500 instead.
C7_CreatedRecord ==
    AuthenticatedCreate /\ SatisfiesAll(resp.req.body) =>
        \/ resp.status = 201 /\ resp.success = "true" /\ RecordOfInput
        \/ /\ resp.status = 500 /\ resp.success = "false" /\ resp.patient = NoDoc
           /\ resp.at = -1

\* A 201 for a body whose texts carry white space at both ends or one end.
C7_Witness ==
    /\ IsCreate /\ resp.status = 201
    /\ resp.req.body.name = Str(Ravi) /\ resp.patient.name = <<"R", "a", "v", "i">>
    /\ resp.patient \in store

\* ---------------------------------------------------------------------- C8
AgeError ==
    resp.status = 400 /\ resp.error = "Valid age is required (1-150)"

\* C8: on an authenticated POST /patients whose name passes, the age is
\* rejected with 400 'Valid age is required (1-150)' exactly when it is
\* absent, not an integer, or an integer outside 1..150.
C8_AgeRule ==
    AuthenticatedCreate /\ TextPresent(resp.req.body.name) =>
        (AgeError <=> ~AgeInRange(resp.req.body.age))


\* ---------------------------------------------------------------------- C9
\* A response of GET /patients to a request that passed authenticateToken.
AuthenticatedList == IsList /\ ~AuthFailure

Ids(S) == {d.id : d \in S}
Returned == {resp.patients[i] : i \in 1..Len(resp.patients)}

\* Every create whose insert the store performed has had its 201 sent
\* before the list request arrived: the N successful creates of C9.
AllCreatesDone == Ids(store) = resp.acked0

\* C9 as stated: an authenticated GET /patients returns success:true, count
\* equal to the length of patients, exactly N records after N successful
\* creates, and the records strictly descending in creation time.
C9_Original ==
    AuthenticatedList =>
        /\ resp.status = 200 /\ resp.success = "true"
        /\ resp.count = Len(resp.patients)
        /\ AllCreatesDone => Len(resp.patients) = Cardinality(resp.acked0)
        /\ \A i, j \in 1..Len(resp.patients) :
              i < j => resp.patients[i].createdAt > resp.patients[j].createdAt

\* C9 amended: an authenticated GET /patients whose find() resolves returns
\* 200 with success:true, count equal to the length of patients, each record
\* once, exactly N records after N successful creates, and the records in
\* descending order of createdAt where records created in the same
\* millisecond may come in either order; when find() rejects it is
\* answered 500 with no records.
C9_ListOrdered ==
    AuthenticatedList =>
        \/ /\ resp.status = 200 /\ resp.success = "true"
           /\ resp.count = Len(resp.patients)
           /\ Cardinality(Returned) = Len(resp.patients)
           /\ AllCreatesDone =>
                 /\ Len(resp.patients) = Cardinality(resp.acked0)
                 /\ Returned = store
           /\ \A i, j \in 1..Len(resp.patients) :
                 i < j => resp.patients[i].createdAt >= resp.patients[j].createdAt
        \/ /\ resp.status = 500 /\ resp.success = "false"
           /\ resp.patients = <<>> /\ resp.count = -1

\* A list after two successful creates in different milliseconds: both
\* records, the later one first.
C9_Witness ==
    /\ AuthenticatedList /\ resp.status = 200 /\ AllCreatesDone
    /\ Len(resp.patients) = 2 /\ resp.count = 2
    /\ resp.patients[1].createdAt > resp.patients[2].createdAt

\* --------------------------------------------------------------------- C10
\* C10: whatever the interleaving of creates and lists, a list's result
\* contains every record whose 201 had been sent when the list request
\* arrived, and only records the store has written.
C10_ReadYourWrites ==
    AuthenticatedList /\ resp.status = 200 =>
        /\ resp.acked0 \subseteq Ids(Returned)
        /\ Returned \subseteq store

\* A list that started after one create's 201 and while another create was
\* awaiting its save: it returns both records.
C10_Witness ==
    /\ AuthenticatedList /\ resp.status = 200
    /\ resp.acked0 # {}
    /\ Ids(Returned) \ resp.acked0 # {}
    /\ Ids(Returned) \ acked # {}

\* --------------------------------------------------------------------- C11
\* A step adds records to the store and takes none away; since a record is
\* a value, a record that stays is unchanged.
C11_StepGrows == store \subseteq store'

\* The record a 201 returns is in the store, under an id no other record
\* has; a list returns every stored record whose 201 had been sent when the
\* list request arrived, as it is in the store.
C11_StateKept ==
    /\ \A d, e \in store : d.id = e.id => d = e
    /\ IsCreate /\ resp.status = 201 => resp.patient \in store
    /\ AuthenticatedList /\ resp.status = 200 =>
          \A d \in store : d.id \in resp.acked0 => d \in Returned

\* C11: the service never updates or deletes a record: across logins,
\* creates, lists, health checks and requests that match no route the store
\* only grows, and the record a create returned appears in every later
\* list with the same id, fields and creation time.
C11_AppendOnly == []C11_StateKept /\ [][C11_StepGrows]_vars

\* A list returns the record of an earlier create while the store holds a
\* second record.
C11_Witness ==
    /\ AuthenticatedList /\ resp.status = 200
    /\ Cardinality(store) = 2
    /\ \E d \in store : d.id \in resp.acked0 /\ d \in Returned

\* --------------------------------------------------------------------- C12
\* C12: every stored record has a name, a village and a healthIssue that are
\* non-empty and carry no white space at either end, a gender among Male,
\* Female and Other, and an integer age from 1 to 150; none has age 0,
\* which the schema alone would admit.
C12_StoredRecords ==
    \A d \in store :
        /\ d.name # <<>> /\ Trim(d.name) = d.name
        /\ d.village # <<>> /\ Trim(d.village) = d.village
        /\ d.healthIssue # <<>> /\ Trim(d.healthIssue) = d.healthIssue
        /\ d.gender \in {Male, Female, Other}
        /\ d.age \in 1..150

\* A record of age 150 is stored, from a body whose texts were padded
\* with white space.
C12_Witness ==
    \E d \in store :
        /\ d.age = 150 /\ d.name = <<"R", "a", "v", "i">>
        /\ SchemaValid([d EXCEPT !.age = 0])

\* --------------------------------------------------------------------- C13
\* C13: every response that has a body carries a boolean success field, and
\* every failure response a string error field as well. (The 204 the CORS
\* middleware gives an OPTIONS request has no body.)
C13_SuccessField ==
    resp # NoResp /\ resp.status # 204 =>
        /\ resp.success \in {"true", "false"}
        /\ resp.status >= 400 => resp.success = "false" /\ resp.error # "absent"

\* --------------------------------------------------------------------- C14
IsHealth == resp.req.route = "GET /health"

\* The database field the claim gives readyState s.
StatedDatabase(s) ==
    CASE s = 1 -> "Connected"
      [] s = 2 -> "Connecting"
      [] s = 3 -> "Disconnecting"
      [] OTHER -> "Disconnected"

\* A health response is 200 and reports one of the four states, whether
\* or not a token came with the request; for every readyState, 99
\* (uninitialized) included, the handler reports the stated word; and a
\* listening server answers the health check in every connection state.
C14_StateHealth ==
    /\ IsHealth =>
          /\ resp.status = 200 /\ resp.health = "OK"
          /\ resp.database \in {"Connected", "Connecting", "Disconnecting", "Disconnected"}
    /\ \A s \in {0, 1, 2, 3, 99} :
          Health(NoRequest, s).database = StatedDatabase(s)
    /\ Listening /\ resp = NoResp => ENABLED GetHealthOps

\* The step that answers a health check reports the connection state of
\* that moment.
C14_StepHealth ==
    resp'.req.route = "GET /health" /\ resp' # resp =>
        resp'.database = StatedDatabase(db) /\ store' = store /\ db' = db

\* C14: GET /health needs no token and always answers, whatever the state
\* of the store connection: database is Connected, Connecting,
\* Disconnecting or Disconnected for readyState 1, 2, 3 and anything else,
\* and with the store unreachable the check still answers 200, reporting
\* the degraded state.
C14_HealthAlwaysAnswers == []C14_StateHealth /\ [][C14_StepHealth]_vars

\* A health check without a token is answered while the store connection
\* is down.
C14_Witness ==
    /\ IsHealth /\ resp.req.auth = NoHeader /\ resp.status = 200
    /\ db = 0 /\ resp.database = "Disconnected"

\* --------------------------------------------------------------------- C15
\* A response to a request whose method and path match no route.
IsUnmatched == resp # NoResp /\ resp.req.route \notin Routes

C15_StateUnmatched ==
    IsUnmatched =>
        IF Method(resp.req.route) = "OPTIONS"
        THEN resp.status = 204 /\ resp.success = "absent" /\ resp.error = "absent"
        ELSE IF resp.req.syntax = "malformed"
        THEN resp.status = 400 /\ resp.success = "false" /\ resp.error # "absent"
        ELSE resp.status = 404 /\ resp.success = "false" /\ resp.error # "absent"

C15_StepUnmatched ==
    resp' # resp /\ resp' # NoResp /\ resp'.req.route \notin Routes =>
        store' = store /\ inflight' = inflight /\ issued' = issued

StoreFailure ==
    /\ resp # NoResp /\ resp.at = -1 /\ resp.status \notin {200, 201}
    /\ IsProtected

\* C16: when the store is unreachable or rejects the write or the read of
\* a create or a list, the response is 500 with a generic message: the
\* error sent is never the store's own error message.
C16_GenericStoreError ==
    StoreFailure =>
        /\ resp.status = 500 /\ resp.success = "false"
        /\ resp.error \notin {e.message : e \in StoreErrors}

\* --------------------------------------------------------------------- C17
\* A request is being handled: its handler is suspended at an await, or
\* its response is being sent.
BeingHandled == inflight # {} \/ resp # NoResp

\* C17: on SIGTERM the store connection is closed only when no request is
\* being handled any more, and the process exits only after the store
\* connection has closed.
C17_ShutdownOrder ==
    /\ phase \in {"dbclosing", "dbclosed", "exited"} => ~BeingHandled
    /\ phase \in {"dbclosed", "exited"} => db = 0

\* --------------------------------------------------------------------- C18
\* C18: every makeRequest call terminates: a call that has started settles,
\* resolved or rejected.
C18_Terminates == (client.pc \notin Settled) ~> (client.pc \in Settled)

\* The part of C18 about the timer: it is armed only while a fetch is
\* pending, for 10 s in makeRequest and 5 s in testConnection, a call that
\* is aborted rejects with an error, and after the call has settled the
\* timer is no longer armed.
C18_TimerCleared ==
    /\ client.timer = "armed" =>
          \/ client.pc = "fetch" /\ client.delay = REQUEST_TIMEOUT
          \/ client.pc = "test" /\ client.delay = TEST_TIMEOUT
    /\ client.pc = "fetch" => client.timer = "armed"
    /\ client.timer = "fired" => client.pc = "rejected" /\ client.error # ""
    /\ client.pc \in Settled => client.timer # "armed"

\* A call waits for the body of a response with its timer cleared.
C18_Witness ==
    client.pc = "body" /\ client.timer = "cleared" /\ client.status = 200

\* --------------------------------------------------------------------- C19
\* The same suspended handler, before and after a step.
SameHandler(r, q) ==
    r.kind = q.kind /\ r.req = q.req /\ r.doc = q.doc /\ r.acked0 = q.acked0

\* A step writes at most one record, that of a create awaiting its save(),
\* once: the handler's await is settled by the write and sends nothing yet.
C19_StepWrite ==
    store' # store =>
        \E r \in inflight :
            /\ r.kind = "create" /\ r.pc = "await" /\ r.doc \notin store
            /\ store' = store \cup {r.doc}
            /\ \E q \in inflight' : SameHandler(r, q) /\ q.pc = "resolved"
            /\ resp' = resp

\* No handler awaits twice: a handler at an await in the next state was at
\* that await already, or its request has just arrived.
C19_StepNoRetry ==
    \A q \in inflight' :
        q.pc = "await" =>
            \/ q \in inflight
            \/ /\ inflight' = inflight \cup {q} /\ resp' = NoResp
               /\ q.kind = "create" => q.doc.id = nextId /\ nextId' = nextId + 1

\* A response is sent either by the step that received the request, which
\* suspends no handler and writes nothing, or by a handler whose await has
\* settled, which ends with it; and a handler ends only by responding.
C19_StepRespond ==
    /\ resp' # resp /\ resp' # NoResp =>
          /\ resp = NoResp /\ store' = store
          /\ \/ resp'.at >= 0 /\ inflight' = inflight /\ nextId' = nextId
             \/ /\ resp'.at = -1
                /\ \E r \in inflight :
                      /\ r.req = resp'.req /\ r.pc # "await"
                      /\ inflight' = inflight \ {r}
    /\ \A r \in inflight :
          (\A q \in inflight' : ~SameHandler(r, q)) =>
              resp' # NoResp /\ resp' # resp /\ resp'.req = r.req

\* The record of a 201 was written; a create answered 4xx never reached
\* save().
C19_StateWritten ==
    /\ IsCreate /\ resp.status = 201 => resp.patient \in store
    /\ IsCreate /\ resp.status >= 400 /\ resp.status <= 499 => resp.at >= 0
    /\ Cardinality(store) <= nextId - 1

\* C19: the server never retries: each request gets exactly one response,
\* each POST /patients writes at most one record (one on 201, none on a
\* 4xx), and an error ends the request without the failed step being
\* attempted again.
C19_NoRetry ==
    /\ []C19_StateWritten
    /\ [][C19_StepWrite /\ C19_StepNoRetry /\ C19_StepRespond]_vars

\* A create whose save() the store rejected is answered 500, and its
\* record is not in the store.
C19_Witness ==
    /\ IsCreate /\ resp.status = 500 /\ resp.at = -1
    /\ nextId = 2 /\ store = {} /\ inflight = {}

\* --------------------------------------------------------------------- C20
\* The store changes only by the record of a create that carried a token
\* /login issued and whose body passes the five checks.
C20_StepOnlyCreate ==
    store' # store =>
        \E r \in inflight :
            /\ store' = store \cup {r.doc}
            /\ r.req.route = "POST /patients"
            /\ \E i \in issued : r.req.auth = Header(<<Word, i.tok>>)
            /\ FirstViolated(r.req.body) = "none"

\* The step that answers a login, a list, a health check, a request that
\* matches no route, or a create with a 4xx, leaves the store as it was.
C20_StepFrame ==
    /\ resp' # resp /\ resp' # NoResp
    /\ \/ resp'.req.route # "POST /patients"
       \/ resp'.status >= 400 /\ resp'.status <= 499
    => store' = store

\* C20: POST /login, GET /patients, GET /health and every create that ends
\* in a 4xx leave the store unchanged; only a create that passes auth and
\* the five checks changes it.
C20_FrameEffect == [][C20_StepOnlyCreate /\ C20_StepFrame]_vars

\* With a record stored, a create whose age is 0 has been answered 400 and
\* the store holds that one record still.
C20_Witness ==
    /\ IsCreate /\ resp.status = 400 /\ resp.req.body.age = Num(0)
    /\ Cardinality(store) = 1 /\ nextId = 2 /\ inflight = {}

\* --------------------------------------------------------------------- C21
\* What a token's acceptance may depend on: the token (its kind, the key
\* of its signature, its expiry) and the time, in whole seconds.
Verifies(tok, t) == tok.k = "jwt" /\ tok.key = JWT_SECRET /\ t \div 1000 < tok.exp

\* The handlers the step suspends at the store: the requests it lets
\* through authenticateToken and the checks.
Admitted == IF inflight \subseteq inflight' THEN inflight' \ inflight ELSE {}

C21_StepDecision ==
    /\ \A r \in Admitted : Verifies(HeaderToken(r.req.auth), now)
    /\ (resp = NoResp /\ resp' # NoResp /\ resp'.at >= 0
        /\ resp'.req.route \in {"POST /patients", "GET /patients"})
        => (resp'.status \in {401, 403} <=> ~Verifies(TokenOf(resp'), now))

C21_StateIssued ==
    \A i \in issued :
        /\ Immediate /\ IsProtected /\ TokenOf(resp) = i.tok /\ AuthFailure
            => resp.at \div 1000 >= i.tok.exp
        /\ now \div 1000 < i.tok.exp => Verifies(i.tok, now)

\* C21: whether a protected request is let through depends only on its
\* token and the clock: every step that decides one rejects it exactly when
\* the token fails Verifies at the current time, whatever was requested
\* before, however many tokens have been issued, and whether or not the
\* client still stores the token; an issued token is rejected only once it
\* has expired.
C21_Stateless == []C21_StateIssued /\ [][C21_StepDecision]_vars

\* Two tokens of separate logins are accepted at the same time, after the
\* client that obtained them has logged out.
C21_Witness ==
    /\ client.op = "logout" /\ client.pc = "resolved" /\ ~IsAuthenticated(client)
    /\ \E r1, r2 \in inflight :
        /\ HeaderToken(r1.req.auth) # HeaderToken(r2.req.auth)
        /\ {HeaderToken(r1.req.auth), HeaderToken(r2.req.auth)} \subseteq {i.tok : i \in issued}

\* --------------------------------------------------------------------- C22
\* The stored token changes to a token only where login stores the token
\* of a body that has success.
C22_StepStore ==
    client'.token # client.token /\ client'.token # NoToken
    => /\ client.pc = "setToken" /\ client.op = "login"
       /\ client.success = "true" /\ client.got # NoToken
       /\ client'.token = client.got

\* A login that returned has stored the token of its response; a request
\* that has been sent carries the stored token as 'Bearer <token>', and no
\* Authorization header when none is stored; after logout none is stored.
C22_StateStored ==
    /\ client.op = "login" /\ client.pc = "resolved"
        => client.token = client.got /\ client.got # NoToken
    /\ client.pc \in {"fetch", "body"}
        => /\ client.sent = client.token
           /\ RequestOf(client).auth =
                IF IsAuthenticated(client) THEN Header(<<Word, client.token>>)
                ELSE NoHeader
    /\ client.op = "logout" /\ client.pc = "resolved" => ~IsAuthenticated(client)

\* The steps that remove the stored token.
C22_StepLogout == client'.op = "logout" /\ client'.pc = "resolved" /\ client.pc \in Settled
C22_Step401 == client.pc = "body" /\ client.status = 401 /\ client'.pc = "rejected"
C22_StepRemoveOriginal ==
    client.token # NoToken /\ client'.token = NoToken => C22_StepLogout
C22_StepRemove ==
    client.token # NoToken /\ client'.token = NoToken => C22_StepLogout \/ C22_Step401

\* C22: the client stores a token if and only if a login call
\* returned success with a token; from then until logout every request
\* carries 'Authorization: Bearer <that token>'; after logout
\* isAuthenticated() is false and requests carry no Authorization header; a
\* failed login never stores a token.
C22_Original ==
    /\ []C22_StateStored
    /\ [][C22_StepStore /\ C22_StepRemoveOriginal]_vars

\* What the code keeps of it: the same, except that the stored token stays
\* until logout or until a request is answered 401, which removes it; a
\* failed login, answered 401, removes the token of an earlier login.
C22_TokenStorage ==
    /\ []C22_StateStored
    /\ [][C22_StepStore /\ C22_StepRemove]_vars

\* After a login that stored a token, getPatients has been answered 200 to
\* a request that carried it.
C22_Witness ==
    /\ client.op = "getPatients" /\ client.pc = "body" /\ client.status = 200
    /\ IsAuthenticated(client) /\ client.sent = client.token
    /\ \E i \in issued : i.tok = client.token

\* --------------------------------------------------------------------- C23
\* handleSubmit awaits the notification: the create was answered with
\* success and its record is in the store.
C23_StateNotify ==
    form.pc = "notify"
    => /\ form.loading
       /\ \E d \in store :
            /\ d.id \in acked
            /\ d.name = Trim(form.patientData.name.s)
            /\ d.village = Trim(form.patientData.village.s)

\* The step in which the notification settles, whether it was scheduled,
\* it threw, or the service was not initialised.
C23_StepNotify ==
    form.pc = "notify" /\ form'.pc # "notify"
    => /\ form'.alert = "Patient added successfully!"
       /\ ~form'.loading /\ form'.pc = "idle"
       /\ form'.patientData = form.patientData
       /\ client' = client
       /\ store' = store /\ inflight' = inflight /\ resp' = resp
       /\ nextId' = nextId /\ acked' = acked /\ issued' = issued

\* C23: the local notification after a successful create is fire-and-forget:
\* when notifyPatientAdded throws, or the notification service is not
\* initialised, handleSubmit still shows the success alert and resets
\* loading; the step sends no request and changes neither the client's
\* call, nor the store, nor any handler or response of the server; the
\* record of the create stays stored.
C23_FireAndForget == []C23_StateNotify /\ [][C23_StepNotify]_vars

\* The success alert is on show, loading is reset and the record is stored,
\* though no notification was scheduled by an initialised service.
C23_Witness ==
    /\ form.alert = "Patient added successfully!" /\ ~form.loading /\ form.pc = "idle"
    /\ notifications.isInitialized /\ notifications.scheduled = 0
    /\ store # {}

\* --------------------------------------------------------------------- C24
\* C24: service validation refines the schema: every record the create
\* handler constructs after the five checks pass satisfies the schema
\* (required fields, age within min and max, gender in the enum), so save()
\* never rejects a record against the schema, and no POST /patients is
\* answered by the ValidationError branch of errorHandler.
C24_ValidationRefinesSchema ==
    /\ \A r \in inflight :
        r.kind = "create"
        => /\ Validate(r.req.body).out = "ok"
           /\ r.doc.name # <<>> /\ r.doc.village # <<>> /\ r.doc.healthIssue # <<>>
           /\ r.doc.age >= 0 /\ r.doc.age <= 150
           /\ r.doc.gender \in {Male, Female, Other}
           /\ r.pc # "invalid"
    /\ resp # NoResp /\ IsCreate
        => resp.error # "Validation Error" /\ resp.details = "absent"

\* A record at the schema's upper bound, made from an age that is not an
\* integer literal, is on its way to the store.
C24_Witness ==
    \E r \in inflight :
        /\ r.kind = "create" /\ r.pc = "await"
        /\ r.doc.age = 150 /\ r.req.body.age # Num(1500)
        /\ r.req.body.age # Str(<<"1", "5", "0">>)

\* --------------------------------------------------------------------- C25
\* The call sent the stored token on a protected request and the server
\* rejected the token: the call has been handled.
C25_TokenRejected ==
    /\ client.pc = "rejected" /\ client.endpoint = "/patients"
    /\ client.sent # NoToken /\ client.status \in {401, 403}

\* C25: when a protected request that carried the stored token is rejected
\* by the server as invalid or expired, the client has removed the stored
\* token once it has handled that response: isAuthenticated() is false, and
\* the token a later request would carry is not the stale one.
C25_StaleTokenRemoved ==
    C25_TokenRejected => ~IsAuthenticated(client) /\ client.token # client.sent

\* The server has answered 403 to the stored token, expired, and the token
\* is still stored.
C25_Witness ==
    /\ C25_TokenRejected /\ client.status = 403 /\ IsAuthenticated(client)
    /\ client.sent = client.token
    /\ now \div 1000 >= client.token.exp

\* --------------------------------------------------------------------- C26
Critical == client.endpoint \in {"/login", "/patients"}
NetworkErrors ==
    {"Network Error: Server returned error", "Network Error: Cannot reach server"}

\* A request of /login or /patients is on its way only from a service
\* that is online; a call that returned data, and logout, leave the service
\* online.
C26_StateGate ==
    /\ Critical /\ client.pc \in {"token", "fetch", "body"} => client.isOnline
    /\ client.pc = "resolved" => client.isOnline

\* An offline service goes on to the request only through a probe that
\* succeeded; a probe that fails rejects the call with a Network Error,
\* and the request is never sent.
C26_StepProbe ==
    /\ ~client.isOnline /\ client'.pc = "token" /\ client'.endpoint \in {"/login", "/patients"}
        => client.pc = "test" /\ client'.isOnline
    /\ client.pc = "test" /\ client'.pc \notin {"test", "token"}
        => /\ client'.pc = "rejected" /\ client'.error \in NetworkErrors
           /\ client'.sent = NoToken /\ client'.status = 0
           /\ resp' = resp /\ inflight' = inflight

\* The service goes offline only on a network failure: not when the
\* timer aborts the request, and not on an HTTP error response.
C26_StepOffline ==
    client.isOnline /\ ~client'.isOnline
    => /\ client'.caught = "Network request failed"
       /\ client'.timer # "fired"

\* C26: while isOnline is false, makeRequest for /login or /patients sends
\* the request only after a health probe succeeded; when the probe fails
\* makeRequest rejects with a Network Error and no request is sent; isOnline
\* is true after every makeRequest that returns data and after logout; an
\* aborted (timed-out) request or an HTTP error response does not by itself
\* set isOnline to false.
C26_OfflineGate == []C26_StateGate /\ [][C26_StepProbe /\ C26_StepOffline]_vars

\* What the code keeps of it: the gate, the probe and the online flag after
\* data and logout.
C26_Gate == []C26_StateGate /\ [][C26_StepProbe]_vars

\* An HTTP error response has put the service offline.
C26_Witness ==
    /\ client.pc = "rejected" /\ ~client.isOnline
    /\ client.status >= 400 /\ client.caught = client.data

\* --------------------------------------------------------------------- C27
\* The fields in the order of the server's checks, and the body that has
\* field k of b and an acceptable text in every other field.
Fields == <<"name", "age", "gender", "village", "healthIssue">>
Acceptable == PatientBody(Str(Ravi), Str(<<"7">>), Str(Male), Str(Koli), Str(Fever))
Only(b, k) == [Acceptable EXCEPT ![Fields[k]] = b[Fields[k]]]

\* The field an error of the client's validation is about, 0 for none.
FieldOf(error) ==
    CASE error \in {"Patient name is required", "name?.trim is not a function",
                    "Please enter patient name", "name.trim is not a function"} -> 1
      [] error \in {"Valid age is required", "Please enter a valid age",
                    "age.trim is not a function"} -> 2
      [] error \in {"Gender is required"} -> 3
      [] error \in {"Village name is required", "village?.trim is not a function",
                    "Please enter village name", "village.trim is not a function"} -> 4
      [] error \in {"Health issue description is required",
                    "healthIssue?.trim is not a function",
                    "Please enter health issue",
                    "healthIssue.trim is not a function"} -> 5
      [] OTHER -> 0

\* The first field, in that order, that a validation rejects on its own.
FirstOf(rejected) ==
    IF rejected = {} THEN 0
    ELSE CHOOSE k \in rejected : \A j \in rejected : k <= j

\* The pre-check of addPatient on the body of the call, and validateForm
\* on the data of the form.
C27_PreCheck ==
    client.op = "addPatient" =>
        LET b == client.body
            v == AddPatientCheck(b)
        IN  /\ Validate(b).out = "ok" => v.out = "ok"
            /\ FieldOf(v.error) =
                    FirstOf({k \in 1..5 : AddPatientCheck(Only(b, k)).out # "ok"})
            /\ v.out # "ok"
                => /\ client.pc = "rejected" /\ client.error = v.error
                   /\ client.timer = "none" /\ client.sent = NoToken
                   /\ client.status = 0
            /\ client.pc \in {"test", "token", "fetch", "body"} => v.out = "ok"

C27_ValidateForm ==
    LET d == form.patientData
        v == ValidateForm(d)
    IN  /\ Validate(d).out = "ok" => v.out = "ok" /\ AddPatientCheck(d).out = "ok"
        /\ FieldOf(v.error) =
                FirstOf({k \in 1..5 : ValidateForm(Only(d, k)).out # "ok"})
        /\ form.pc = "addPatient" => v.out = "ok"

\* C27: the client's validation is never stricter than the server's: every
\* patient body the server's five checks accept passes the pre-check of
\* ApiService.addPatient, and every form content they accept passes
\* validateForm; each reports the first field it rejects in the order
\* name, age, gender, village, healthIssue (validateForm has no check of
\* gender); and a call whose pre-check fails is rejected with that error
\* without a request being sent.
C27_ClientNotStricter == C27_PreCheck /\ C27_ValidateForm

\* The form holds a content the server accepts; it has passed validateForm
\* and the pre-check, and the request carrying it has been sent.
C27_Witness ==
    /\ form.pc = "addPatient" /\ client.op = "addPatient" /\ client.pc = "fetch"
    /\ client.body = form.patientData
    /\ Validate(client.body).out = "ok"
    /\ client.body.age = Str(<<"1", "5", "0">>)

\* --------------------------------------------------------------------- C28
\* Every call of fetchPatients that was started has settled.
AllSettled == list.started > 0 /\ list.fetches = {}

\* C28: when several fetchPatients calls overlap and their responses
\* arrive in any order, the list on show once all of them have settled is
\* the list answered to the call that started last, never that of an
\* older call; and once every call has settled, loading and refreshing are
\* both false.
C28_LatestWins ==
    AllSettled
    => /\ ~list.loading /\ ~list.refreshing
       /\ list.latest # <<-1>> => list.patients = list.latest /\ list.shown = list.started

\* What the code keeps of it: once every call has settled, loading and
\* refreshing are both false, and the list on show is one that was
\* answered to some call.
C28_FlagsReset ==
    AllSettled => ~list.loading /\ ~list.refreshing /\ list.shown <= list.started

\* Every call has settled, the call that started last was answered with
\* the stored patient, and the list on show is the empty one of an older
\* call.
C28_Witness ==
    /\ AllSettled /\ list.latest # <<-1>> /\ list.latest # <<>>
    /\ list.patients = <<>> /\ list.shown < list.started /\ list.shown > 0

\* --------------------------------------------------------------------- C29
\* A step in which ApiService.addPatient is called.
CreateStarts ==
    client.pc \in Settled /\ client' # client /\ client'.op = "addPatient"

\* loading is true exactly while a handleSubmit is under way, and a
\* handleSubmit under way is the one whose addPatient call the client holds.
C29_StateLoading ==
    /\ form.loading <=> form.pc # "idle"
    /\ form.pc = "addPatient" => client.op = "addPatient"
    /\ form.pc = "addPatient" /\ client.pc \notin Settled => form.loading

\* addPatient is called only by a handleSubmit that finds loading false and
\* a form validateForm accepts, and the same step sets loading.
C29_StepSubmit ==
    CreateStarts
    => /\ ~form.loading /\ form'.loading
       /\ ValidateForm(form.patientData).out = "ok"
       /\ client' = AddPatient(client, form.patientData)

\* While the form is one validateForm rejects, no step sets loading or
\* calls addPatient, and pressing submit sends nothing.
C29_StepInvalid ==
    ~form.loading /\ ValidateForm(form.patientData).out # "ok"
    => /\ ~form'.loading /\ ~CreateStarts
       /\ form' # form /\ form'.patientData = form.patientData
          => /\ form'.alert = ValidateForm(form.patientData).error
             /\ client' = client /\ inflight' = inflight /\ resp' = resp

\* Whatever the outcome handleSubmit ends with, loading is false.
C29_StepOutcome ==
    form.pc # "idle" /\ form'.pc = "idle" => ~form'.loading /\ form'.alert # ""

\* C29: AddPatientScreen submits at most one create at a time: loading is
\* true from the start of a valid handleSubmit until its request settles,
\* the submit control acts only while loading is false, loading is false
\* after every outcome, and a form validateForm rejects never sets loading
\* and never sends a request.
C29_OneCreateAtATime ==
    /\ []C29_StateLoading
    /\ [][C29_StepSubmit /\ C29_StepInvalid /\ C29_StepOutcome]_vars

\* A valid form was submitted, its request timed out, and loading is false
\* again with the error on show.
C29_Witness ==
    /\ form.alert = "Request timeout" /\ ~form.loading /\ form.pc = "idle"
    /\ client.op = "addPatient" /\ client.pc = "rejected"
    /\ ValidateForm(form.patientData).out = "ok"

\* --------------------------------------------------------------------- C30
\* The fields the handler trims, and a field whose shape is faulty: absent,
\* null, empty, white space only, or not text.
Trimmed == {"name", "village", "healthIssue"}
Misshapen(v) ==
    \/ v.t \in {"undefined", "null"}
    \/ v.t = "string" /\ Trim(v.s) = <<>>
    \/ v.t # "string"

\* C30: an authenticated POST /patients never answers 500 because of the
\* shape of its body: when name, village or healthIssue is absent, null,
\* empty, white space only or not text, the response is the 400 of the
\* first violated rule, not a server error.
C30_NoServerErrorForShape ==
    AuthenticatedCreate /\ (\E f \in Trimmed : Misshapen(resp.req.body[f])) =>
        /\ resp.status # 500
        /\ resp.status = 400 /\ resp.error = FirstViolated(resp.req.body)

\* What the code keeps of it: a field that is absent, null, empty or white
\* space only, the fields before it being text, is answered with the 400 of
\* the first violated rule.
C30_TextOrAbsent ==
    /\ AuthenticatedCreate
    /\ \E f \in Trimmed : Misshapen(resp.req.body[f])
    /\ \A f \in Trimmed : resp.req.body[f].t \in {"undefined", "null", "string"}
    => resp.status = 400 /\ resp.error = FirstViolated(resp.req.body)

\* An authenticated create whose name is a number is answered 500 by the
\* step that received it, nothing having reached the store.
C30_Witness ==
    /\ AuthenticatedCreate /\ Immediate /\ resp.status = 500
    /\ resp.req.body.name.t = "number" /\ store = {}

====
